---------------------------- MODULE Spec2Model ----------------------------
(***************************************************************************)
(* Model of the record shredding / assembly core (row.go) and of the       *)
(* per-column row buffers (buffer_column.go) of parquet-go.                *)
(*                                                                         *)
(* Two specifications share the variables of the module:                   *)
(*   ShredSpec  one invocation of a compiled deconstructor followed by the *)
(*              compiled reconstructor on the row it produced;             *)
(*   Spec       a column buffer (flat, optional, repeated or fixed-length  *)
(*              byte array), its clone, and the calls made on them.        *)
(***************************************************************************)
EXTENDS Integers, Sequences, FiniteSets, TLC

VARIABLES
    sNode,      \* schema node whose closures are invoked
    sColumn,    \* columnIndex the node was compiled at
    sLevels,    \* levels the closures are invoked with
    sValue,     \* host value handed to the deconstructor
    sPhase,     \* "start" | "deconstructed" | "reconstructed"
    sRow,       \* Row returned by the deconstructor
    sDest,      \* destination value after the reconstructor
    sRest,      \* Row returned by the reconstructor (unconsumed suffix)
    sErr,       \* error returned by the reconstructor
    sCompiled,  \* what compiling the functions for sNode at sColumn returned
    heap,       \* the arrays of the buffers, by address
    b1,         \* the buffer under test
    b2,         \* its clone (NoBuffer before Clone is called)
    log1,       \* rows written to b1, in their current logical order
    hist,       \* "writes": b1 has seen WriteRow, Swap, ReadRowAt and Clone only;
                \* "paged": these followed by one Page; "reset": a Reset followed
                \* by these but Swap; "mixed": anything else
    snap,       \* what b1 read back as when Clone was called
    touched,    \* touched[k]: buffer k was written, swapped, reset or paged since Clone
    calls,      \* number of calls made so far
    last,       \* <<call, buffer>> of the last call
    page,       \* contents of the page returned by the last call, a Page on b1
    prevPage,   \* contents of the page returned by the call before, if a Page on b1 too
    got,        \* [row, err, index, prefix] of the last ReadRowAt, kept across Swap
    held,       \* byte payloads of got.row as they were when it was returned
    less        \* [i, j, result] of the call if it was b1.Less(i, j)

shredVars == <<sNode, sColumn, sLevels, sValue, sPhase, sCompiled, sRow, sDest, sRest,
               sErr>>
bufVars == <<heap, b1, b2, log1, hist, snap, touched, calls, last, page, prevPage,
             got, held, less>>
vars == <<shredVars, bufVars>>

-----------------------------------------------------------------------------
(* Bounds of the model *)

\* deepest nesting of the generated schemas
MaxDepth == 2
\* most elements in a generated slice, most entries in a generated map
MaxElems == 2
\* nesting depth down to which generated slices and maps are non-empty
MaxFill == 3
\* largest integer payload of a generated leaf
MaxInt == 1
MaxRows == 2       \* rows a buffer holds at most
MaxRowLen == 2     \* values in a row of a repeated column
MaxCalls == 5      \* calls made on the buffers
MaxCompact == 5    \* values of the column that is compacted
FixedSize == 2     \* size of the fixed-length byte arrays
IntBits == 8       \* width of int, scaled down from 64
CompileSlack == 2  \* how far below and above a limit the compiled schemas go

-----------------------------------------------------------------------------
(* Program constants *)

MaxRepetitionLevel == 127
MaxDefinitionLevel == 127
MaxColumnIndex == 127

\* int8 arithmetic: the result of an increment, wrapped to 8 bits
Int8(x) == ((x + 128) % 256) - 128

-----------------------------------------------------------------------------
(* Schema nodes.  A node is [rep, kind, ptr, kids]:                        *)
(*   rep   "required" | "optional" | "repeated"                            *)
(*   kind  "leaf" | "group" | "list" | "map"                               *)
(*   ptr   the host field of an optional node is a pointer                 *)
(*   kids  children of a group; <<element>> of a list; <<key, value>> of a *)
(*         map; <<>> for a leaf                                            *)

Node(rep, kind, ptr, kids) == [rep |-> rep, kind |-> kind, ptr |-> ptr, kids |-> kids]
Leaf(rep, ptr) == Node(rep, "leaf", ptr, <<>>)

Optional(node) == node.rep = "optional"
Repeated(node) == node.rep = "repeated"
isLeaf(node) == node.kind = "leaf"
isList(node) == node.kind = "list"
isMap(node) == node.kind = "map"

\* Required(node), Repeated(node): the same node with its repetition replaced
RequiredOf(node) == [node EXCEPT !.rep = "required", !.ptr = FALSE]
RepeatedOf(node) == [node EXCEPT !.rep = "repeated", !.ptr = FALSE]

listElementOf(node) == node.kids[1]
\* schemaOf(keyValueElem): the group {key, value} of a map's entries
mapKeyValueOf(node) == Node("required", "group", FALSE, node.kids)

-----------------------------------------------------------------------------
(* Host values (reflect.Value) *)

Invalid == [t |-> "invalid"]
IntV(n) == [t |-> "int", v |-> n]
NilPtr == [t |-> "ptr", elem |-> <<>>]
PtrTo(x) == [t |-> "ptr", elem |-> <<x>>]
NilSlice == [t |-> "slice", nil |-> TRUE, elems |-> <<>>]
SliceOf(xs) == [t |-> "slice", nil |-> FALSE, elems |-> xs]
NilMap == [t |-> "map", nil |-> TRUE, entries |-> <<>>]
MapOf(f) == [t |-> "map", nil |-> FALSE, entries |-> f]
StructOf(fs) == [t |-> "struct", fields |-> fs]

IsValid(value) == value.t # "invalid"

RECURSIVE IsZero(_)
\* reflect.Value.IsZero
IsZero(value) ==
    CASE value.t = "int" -> value.v = 0
      [] value.t = "ptr" -> value.elem = <<>>
      [] value.t = "slice" -> value.nil
      [] value.t = "map" -> value.nil
      [] value.t = "struct" -> \A i \in 1..Len(value.fields) : IsZero(value.fields[i])
      [] OTHER -> FALSE

RECURSIVE HostZero(_)
\* reflect.Zero of the host type of a node
HostZero(node) ==
    IF Optional(node) THEN (IF node.ptr THEN NilPtr ELSE HostZero(RequiredOf(node)))
    ELSE IF Repeated(node) THEN NilSlice
    ELSE IF isList(node) THEN NilSlice
    ELSE IF isMap(node) THEN NilMap
    ELSE IF isLeaf(node) THEN IntV(0)
    ELSE StructOf([i \in 1..Len(node.kids) |-> HostZero(node.kids[i])])


-----------------------------------------------------------------------------
(* Values and rows *)

\* Value{}: the zero Value, a null
NullValue == [kind |-> "null", v |-> 0, columnIndex |-> 0,
              repetitionLevel |-> 0, definitionLevel |-> 0]

\* makeValue(kind, value) for the int32 kind
makeValue(value) == [NullValue EXCEPT !.kind = "int32", !.v = value.v]

\* ^int8(columnIndex): the column index is stored as its bitwise complement
complementInt8(c) == -Int8(c) - 1

\* Value.ColumnIndex
ColumnIndex(v) == -v.columnIndex - 1

\* Row.startsWith
startsWith(row, columnIndex) == Len(row) > 0 /\ ColumnIndex(row[1]) = columnIndex

ZeroLevels == [repetitionDepth |-> 0, repetitionLevel |-> 0, definitionLevel |-> 0]

\* row[n:] of a Go slice (0-based n)
DropFirst(row, n) == SubSeq(row, n + 1, Len(row))

\* all orders in which the keys of a map can be enumerated (MapKeys)
MapKeyOrders(keys) ==
    {o \in [1..Cardinality(keys) -> keys] : \A i, j \in DOMAIN o : i # j => o[i] # o[j]}

-----------------------------------------------------------------------------
(* Compilation: the column index following the leaves of a node           *)
(* (the int returned by deconstructFuncOf and reconstructFuncOf)           *)

RECURSIVE nextColumnIndexOf(_, _)
nextColumnIndexOf(columnIndex, node) ==
    IF Optional(node) \/ Repeated(node) THEN nextColumnIndexOf(columnIndex, RequiredOf(node))
    ELSE IF isList(node) THEN nextColumnIndexOf(columnIndex, RepeatedOf(listElementOf(node)))
    ELSE IF isMap(node) THEN nextColumnIndexOf(columnIndex, RepeatedOf(mapKeyValueOf(node)))
    ELSE IF isLeaf(node) THEN columnIndex + 1
    ELSE IF node.kids = <<>> THEN columnIndex
    ELSE LET next == nextColumnIndexOf(columnIndex,
                         [node EXCEPT !.kids = SubSeq(node.kids, 1, Len(node.kids) - 1)])
         IN  \* next is never below columnIndex: the test has it evaluated first
             IF next < columnIndex THEN next
             ELSE nextColumnIndexOf(next, node.kids[Len(node.kids)])

\* column index at which child i of a group is compiled
childColumnIndex(columnIndex, node, i) ==
    nextColumnIndexOf(columnIndex, [node EXCEPT !.kids = SubSeq(node.kids, 1, i - 1)])

-----------------------------------------------------------------------------
(* Compilation of the deconstructor: the part of deconstructFuncOf and of  *)
(* the functions it dispatches to that runs before the closure is          *)
(* returned.  It yields [ok, columnIndex, columns]: whether it returned    *)
(* (FALSE: it panicked), the column index returned, and the leaves with    *)
(* the column index each was compiled with, a leaf named by its path of    *)
(* child positions.                                                        *)

NotCompiled == [ok |-> FALSE, columnIndex |-> -1, columns |-> <<>>]
Panicked == [ok |-> FALSE, columnIndex |-> 0, columns |-> <<>>]
Compiled(columnIndex, columns) == [ok |-> TRUE, columnIndex |-> columnIndex, columns |-> columns]

\* deconstructFuncOfLeaf: panics above MaxColumnIndex, else returns columnIndex + 1
compileFuncOfLeaf(columnIndex, path) ==
    IF columnIndex > MaxColumnIndex THEN Panicked
    ELSE Compiled(columnIndex + 1, <<[path |-> path, index |-> columnIndex]>>)

RECURSIVE compileFuncOf(_, _, _)
RECURSIVE compileChildren(_, _, _, _, _)

\* compileChildren giving every child the column index of the group
compileChildrenSameIndex(columnIndex, node, path, i, columns) ==
    IF i > Len(node.kids) THEN Compiled(columnIndex, columns)
    ELSE LET c == compileFuncOf(columnIndex, node.kids[i], Append(path, i))
         IN  IF ~c.ok THEN Panicked
             ELSE compileChildren(columnIndex, node, path, i + 1, columns \o c.columns)

\* deconstructFuncOfGroup: the loop compiling the children, from child i on
compileChildren(columnIndex, node, path, i, columns) ==
    IF i > Len(node.kids) THEN Compiled(columnIndex, columns)
    ELSE LET c == compileFuncOf(columnIndex, node.kids[i], Append(path, i))
         IN  IF ~c.ok THEN Panicked
             ELSE compileChildren(c.columnIndex, node, path, i + 1, columns \o c.columns)

compileFuncOf(columnIndex, node, path) ==
    IF Optional(node) \/ Repeated(node) THEN compileFuncOf(columnIndex, RequiredOf(node), path)
    ELSE IF isList(node)
    THEN compileFuncOf(columnIndex, RepeatedOf(listElementOf(node)), Append(path, 1))
    ELSE IF isMap(node) THEN compileFuncOf(columnIndex, RepeatedOf(mapKeyValueOf(node)), path)
    ELSE IF isLeaf(node) THEN compileFuncOfLeaf(columnIndex, path)
    ELSE compileChildren(columnIndex, node, path, 1, <<>>)

-----------------------------------------------------------------------------
(* The deconstructor.  Each operator is the closure returned by the        *)
(* function of the same name, applied to (levels, value); it yields the    *)
(* set of value sequences the closure can append to the row (a map is      *)
(* enumerated in an unspecified order).                                    *)

\* optionalLevels without the increment
optionalLevelsNoDefinition(levels) == levels

\* levels after a present, non-zero optional value
optionalLevels(levels) ==
    [levels EXCEPT !.definitionLevel = Int8(levels.definitionLevel + 1)]

\* repeatedLevels without the increment of the definition level
repeatedLevelsNoDefinition(levels, numValues) ==
    [levels EXCEPT !.repetitionDepth = Int8(levels.repetitionDepth + 1)]

\* repeatedLevels with the definition level incremented for an empty value too
repeatedLevelsAlwaysDefined(levels, numValues) ==
    [levels EXCEPT !.repetitionDepth = Int8(levels.repetitionDepth + 1),
                   !.definitionLevel = Int8(levels.definitionLevel + 1)]

\* levels after entering a valid repeated value of numValues elements
repeatedLevels(levels, numValues) ==
    [levels EXCEPT !.repetitionDepth = Int8(levels.repetitionDepth + 1),
                   !.definitionLevel = IF numValues > 0
                                       THEN Int8(levels.definitionLevel + 1)
                                       ELSE levels.definitionLevel]

\* nextElementLevels one level too deep
nextElementLevelsTooDeep(levels) ==
    [levels EXCEPT !.repetitionLevel = Int8(levels.repetitionDepth + 1)]

\* levels.repetitionLevel = levels.repetitionDepth, after each element
nextElementLevels(levels) ==
    [levels EXCEPT !.repetitionLevel = levels.repetitionDepth]

RECURSIVE deconstructFuncOf(_, _, _, _)
RECURSIVE deconstructElements(_, _, _, _, _)
RECURSIVE deconstructChildren(_, _, _, _, _)

deconstructFuncOfLeaf(columnIndex, node, levels, value) ==
    LET v == IF IsValid(value) THEN makeValue(value) ELSE NullValue
    IN  {<<[v EXCEPT !.repetitionLevel = levels.repetitionLevel,
                     !.definitionLevel = levels.definitionLevel,
                     !.columnIndex = complementInt8(columnIndex)]>>}

\* the loop over the children of a group, from child i on
deconstructChildren(columnIndex, node, levels, value, i) ==
    IF i > Len(node.kids) THEN {<<>>}
    ELSE LET child == IF IsValid(value) THEN value.fields[i] ELSE value
             heads == deconstructFuncOf(childColumnIndex(columnIndex, node, i),
                                        node.kids[i], levels, child)
             tails == deconstructChildren(columnIndex, node, levels, value, i + 1)
         IN  {h \o t : h \in heads, t \in tails}

deconstructFuncOfGroup(columnIndex, node, levels, value) ==
    deconstructChildren(columnIndex, node, levels, value, 1)

deconstructFuncOfRequired(columnIndex, node, levels, value) ==
    IF isLeaf(node) THEN deconstructFuncOfLeaf(columnIndex, node, levels, value)
    ELSE deconstructFuncOfGroup(columnIndex, node, levels, value)

deconstructFuncOfOptional(columnIndex, node, levels, value) ==
    IF IsValid(value)
    THEN IF IsZero(value)
         THEN deconstructFuncOf(columnIndex, RequiredOf(node), levels, Invalid)
         ELSE deconstructFuncOf(columnIndex, RequiredOf(node), optionalLevels(levels),
                                IF value.t = "ptr" THEN value.elem[1] ELSE value)
    ELSE deconstructFuncOf(columnIndex, RequiredOf(node), levels, value)

\* deconstructElements without levels.repetitionLevel = levels.repetitionDepth
deconstructElementsSameLevels(columnIndex, node, levels, elems, i) ==
    IF i > Len(elems) THEN {<<>>}
    ELSE LET heads == deconstructFuncOf(columnIndex, RequiredOf(node), levels, elems[i])
             tails == deconstructElements(columnIndex, node, levels, elems, i + 1)
         IN  {h \o t : h \in heads, t \in tails}

\* the loop over the elements of a repeated value, from element i on
deconstructElements(columnIndex, node, levels, elems, i) ==
    IF i > Len(elems) THEN {<<>>}
    ELSE LET heads == deconstructFuncOf(columnIndex, RequiredOf(node), levels, elems[i])
             tails == deconstructElements(columnIndex, node, nextElementLevels(levels),
                                          elems, i + 1)
         IN  {h \o t : h \in heads, t \in tails}

deconstructFuncOfRepeated(columnIndex, node, levels, value) ==
    LET numValues == IF IsValid(value) THEN Len(value.elems) ELSE 0
        lv == IF IsValid(value) THEN repeatedLevels(levels, numValues) ELSE levels
    IN  IF numValues = 0
        THEN deconstructFuncOf(columnIndex, RequiredOf(node), lv, Invalid)
        ELSE deconstructElements(columnIndex, node, lv, value.elems, 1)

deconstructFuncOfList(columnIndex, node, levels, value) ==
    deconstructFuncOf(columnIndex, RepeatedOf(listElementOf(node)), levels, value)

\* deconstructFuncOfMap without Field(0).Set: the keys stay zero
deconstructFuncOfMapNoKeys(columnIndex, node, levels, mapValue) ==
    IF ~IsValid(mapValue)
    THEN deconstructFuncOf(columnIndex, RepeatedOf(mapKeyValueOf(node)), levels, Invalid)
    ELSE UNION {
           deconstructFuncOf(columnIndex, RepeatedOf(mapKeyValueOf(node)), levels,
               SliceOf([i \in DOMAIN o |-> StructOf(<<IntV(0), mapValue.entries[o[i]]>>)]))
           : o \in MapKeyOrders(DOMAIN mapValue.entries)}

deconstructFuncOfMap(columnIndex, node, levels, mapValue) ==
    IF ~IsValid(mapValue)
    THEN deconstructFuncOf(columnIndex, RepeatedOf(mapKeyValueOf(node)), levels, Invalid)
    ELSE UNION {
           deconstructFuncOf(columnIndex, RepeatedOf(mapKeyValueOf(node)), levels,
               SliceOf([i \in DOMAIN o |-> StructOf(<<IntV(o[i]), mapValue.entries[o[i]]>>)]))
           : o \in MapKeyOrders(DOMAIN mapValue.entries)}

deconstructFuncOf(columnIndex, node, levels, value) ==
    IF Optional(node) THEN deconstructFuncOfOptional(columnIndex, node, levels, value)
    ELSE IF Repeated(node) THEN deconstructFuncOfRepeated(columnIndex, node, levels, value)
    ELSE IF isList(node) THEN deconstructFuncOfList(columnIndex, node, levels, value)
    ELSE IF isMap(node) THEN deconstructFuncOfMap(columnIndex, node, levels, value)
    ELSE deconstructFuncOfRequired(columnIndex, node, levels, value)

-----------------------------------------------------------------------------
(* The reconstructor.  Each operator is the closure returned by the        *)
(* function of the same name, applied to (value, levels, row); it yields   *)
(* [value, row, err]: the destination after the call, the row returned and *)
(* the error returned (NoError for nil).                                   *)

NoError == <<>>
Result(value, row, err) == [value |-> value, row |-> row, err |-> err]

\* assignValue: a null leaves the zero value, an int32 its payload
assignValue(value, v) ==
    IF v.kind = "null" THEN IntV(0) ELSE IntV(v.v)

\* isNullSubtree with <= for <
isNullSubtreeInclusive(row, levels) == row[1].definitionLevel <= levels.definitionLevel

\* the first value of the row says that the optional or repeated node is null
isNullSubtree(row, levels) == row[1].definitionLevel < levels.definitionLevel

\* levels expected below an optional node
reconstructOptionalLevels(levels) ==
    [levels EXCEPT !.definitionLevel = Int8(levels.definitionLevel + 1)]

\* levels expected below a repeated node
reconstructRepeatedLevels(levels) ==
    [levels EXCEPT !.definitionLevel = Int8(levels.definitionLevel + 1),
                   !.repetitionDepth = Int8(levels.repetitionDepth + 1)]

\* levels.repetitionLevel = levels.repetitionDepth, after each element read
reconstructNextElementLevels(levels) ==
    [levels EXCEPT !.repetitionLevel = levels.repetitionDepth]

\* the loop condition without the test of the repetition level
hasNextElementAtAnyLevel(row, columnIndex, levels) == startsWith(row, columnIndex)

\* the element loop goes on: the row starts at this column with the expected level
hasNextElement(row, columnIndex, levels) ==
    startsWith(row, columnIndex) /\ row[1].repetitionLevel = levels.repetitionLevel

RECURSIVE reconstructFuncOf(_, _, _, _, _)
RECURSIVE reconstructElements(_, _, _, _, _, _)
RECURSIVE reconstructChildren(_, _, _, _, _, _)

reconstructFuncOfLeaf(columnIndex, node, value, levels, row) ==
    IF Len(row) = 0
    THEN Result(value, row, <<"expected one value to reconstruct leaf parquet row">>)
    ELSE IF ColumnIndex(row[1]) # columnIndex
    THEN Result(value, row, <<"no values found in parquet row for column">>)
    ELSE Result(assignValue(value, row[1]), DropFirst(row, 1), NoError)

\* reconstructChildren without the break: the children after a failing one run
reconstructChildrenNoBreak(columnIndex, node, value, levels, row, i) ==
    IF i > Len(node.kids) THEN Result(value, row, NoError)
    ELSE LET r == reconstructFuncOf(childColumnIndex(columnIndex, node, i), node.kids[i],
                                    value.fields[i], levels, row)
             v == [value EXCEPT !.fields[i] = r.value]
             rest == reconstructChildren(columnIndex, node, v, levels, r.row, i + 1)
         IN  IF r.err # NoError
             THEN Result(rest.value, rest.row, <<i>> \o r.err)
             ELSE rest

\* the loop over the children of a group, from child i on
reconstructChildren(columnIndex, node, value, levels, row, i) ==
    IF i > Len(node.kids) THEN Result(value, row, NoError)
    ELSE LET r == reconstructFuncOf(childColumnIndex(columnIndex, node, i), node.kids[i],
                                    value.fields[i], levels, row)
             v == [value EXCEPT !.fields[i] = r.value]
         IN  IF r.err # NoError
             THEN Result(v, r.row, <<i>> \o r.err)
             ELSE reconstructChildren(columnIndex, node, v, levels, r.row, i + 1)

reconstructFuncOfGroup(columnIndex, node, value, levels, row) ==
    reconstructChildren(columnIndex, node, value, levels, row, 1)

reconstructFuncOfRequired(columnIndex, node, value, levels, row) ==
    IF isLeaf(node) THEN reconstructFuncOfLeaf(columnIndex, node, value, levels, row)
    ELSE reconstructFuncOfGroup(columnIndex, node, value, levels, row)

\* reconstructFuncOfOptional without the Set of the zero value in the null case
reconstructFuncOfOptionalKeepsValue(columnIndex, node, value, levels, row) ==
    LET rowLength == nextColumnIndexOf(columnIndex, RequiredOf(node)) - columnIndex
        lv == reconstructOptionalLevels(levels)
    IN  IF ~startsWith(row, columnIndex)
        THEN Result(value, row, <<"row is missing optional column">>)
        ELSE IF Len(row) < rowLength
        THEN Result(value, row, <<"expected optional column to have at least rowLength values">>)
        ELSE IF isNullSubtree(row, lv)
        THEN Result(value, DropFirst(row, rowLength), NoError)
        ELSE IF value.t = "ptr"
        THEN LET elem == IF value.elem = <<>> THEN HostZero(RequiredOf(node)) ELSE value.elem[1]
                 r == reconstructFuncOf(columnIndex, RequiredOf(node), elem, lv, row)
             IN  Result(PtrTo(r.value), r.row, r.err)
        ELSE reconstructFuncOf(columnIndex, RequiredOf(node), value, lv, row)

reconstructFuncOfOptional(columnIndex, node, value, levels, row) ==
    LET rowLength == nextColumnIndexOf(columnIndex, RequiredOf(node)) - columnIndex
        lv == reconstructOptionalLevels(levels)
    IN  IF ~startsWith(row, columnIndex)
        THEN Result(value, row, <<"row is missing optional column">>)
        ELSE IF Len(row) < rowLength
        THEN Result(value, row, <<"expected optional column to have at least rowLength values">>)
        ELSE IF isNullSubtree(row, lv)
        THEN Result(HostZero(node), DropFirst(row, rowLength), NoError)
        ELSE IF value.t = "ptr"
        THEN LET elem == IF value.elem = <<>> THEN HostZero(RequiredOf(node)) ELSE value.elem[1]
                 r == reconstructFuncOf(columnIndex, RequiredOf(node), elem, lv, row)
             IN  Result(PtrTo(r.value), r.row, r.err)
        ELSE reconstructFuncOf(columnIndex, RequiredOf(node), value, lv, row)

\* the element loop: acc holds the n elements filled so far; the slot of the next
\* element is the one the destination held there, or a zero of the grown slice
reconstructElements(columnIndex, node, value, levels, row, acc) ==
    IF ~hasNextElement(row, columnIndex, levels)
    THEN Result(SliceOf(acc), row, NoError)
    ELSE LET n == Len(acc)
             slot == IF n < Len(value.elems) THEN value.elems[n + 1]
                     ELSE HostZero(RequiredOf(node))
             r == reconstructFuncOf(columnIndex, RequiredOf(node), slot, levels, row)
         IN  IF r.err # NoError
             THEN Result(SliceOf(Append(acc, r.value)), r.row, r.err)
             ELSE reconstructElements(columnIndex, node, value,
                                      reconstructNextElementLevels(levels),
                                      r.row, Append(acc, r.value))

\* reconstructFuncOfRepeated without the MakeSlice of the null case
reconstructFuncOfRepeatedKeepsNil(columnIndex, node, value, levels, row) ==
    LET rowLength == nextColumnIndexOf(columnIndex, RequiredOf(node)) - columnIndex
        lv == reconstructRepeatedLevels(levels)
    IN  IF ~startsWith(row, columnIndex)
        THEN Result(value, row, <<"row is missing repeated column">>)
        ELSE IF Len(row) < rowLength
        THEN Result(value, row, <<"expected repeated column to have at least rowLength values">>)
        ELSE IF value.t # "slice"
        THEN Result(value, row, <<"cannot reconstruct repeated column into go value">>)
        ELSE IF isNullSubtree(row, lv)
        THEN Result(value, DropFirst(row, rowLength), NoError)
        ELSE reconstructElements(columnIndex, node, value, lv, row, <<>>)

reconstructFuncOfRepeated(columnIndex, node, value, levels, row) ==
    LET rowLength == nextColumnIndexOf(columnIndex, RequiredOf(node)) - columnIndex
        lv == reconstructRepeatedLevels(levels)
    IN  IF ~startsWith(row, columnIndex)
        THEN Result(value, row, <<"row is missing repeated column">>)
        ELSE IF Len(row) < rowLength
        THEN Result(value, row, <<"expected repeated column to have at least rowLength values">>)
        ELSE IF value.t # "slice"
        THEN Result(value, row, <<"cannot reconstruct repeated column into go value">>)
        ELSE IF isNullSubtree(row, lv)
        THEN Result(SliceOf(<<>>), DropFirst(row, rowLength), NoError)
        ELSE reconstructElements(columnIndex, node, value, lv, row, <<>>)

reconstructFuncOfList(columnIndex, node, value, levels, row) ==
    reconstructFuncOf(columnIndex, RepeatedOf(listElementOf(node)), value, levels, row)

\* SetMapIndex for each element of the key-value slice, in order
RECURSIVE setMapEntries(_, _, _)
setMapEntries(entries, elems, i) ==
    IF i > Len(elems) THEN entries
    ELSE LET k == elems[i].fields[1].v
             e == [x \in DOMAIN entries \cup {k} |->
                      IF x = k THEN elems[i].fields[2] ELSE entries[x]]
         IN  setMapEntries(e, elems, i + 1)

reconstructFuncOfMap(columnIndex, node, mapValue, levels, row) ==
    LET r == reconstructFuncOf(columnIndex, RepeatedOf(mapKeyValueOf(node)), NilSlice, levels, row)
    IN  IF r.err # NoError THEN Result(mapValue, r.row, r.err)
        ELSE IF r.value.nil THEN Result(NilMap, r.row, NoError)
        ELSE Result(MapOf(setMapEntries(IF mapValue.nil THEN <<>> ELSE mapValue.entries,
                                        r.value.elems, 1)),
                    r.row, NoError)

reconstructFuncOf(columnIndex, node, value, levels, row) ==
    IF Optional(node) THEN reconstructFuncOfOptional(columnIndex, node, value, levels, row)
    ELSE IF Repeated(node) THEN reconstructFuncOfRepeated(columnIndex, node, value, levels, row)
    ELSE IF isList(node) THEN reconstructFuncOfList(columnIndex, node, value, levels, row)
    ELSE IF isMap(node) THEN reconstructFuncOfMap(columnIndex, node, value, levels, row)
    ELSE reconstructFuncOfRequired(columnIndex, node, value, levels, row)

-----------------------------------------------------------------------------
(* Column buffers.  The arrays of a buffer live in the heap, a sequence of  *)
(* cells; a buffer holds the addresses of its arrays, so that two buffers   *)
(* share memory exactly when they hold the same address.  Operations take   *)
(* the heap and yield the heap (and buffer) after the call.  Indexes are    *)
(* 0-based as in the source.                                                *)

NoBuffer == [kind |-> "none"]
NoPage == [err |-> "none", values |-> <<>>, repetitionLevels |-> <<>>, definitionLevels |-> <<>>]
NoRead == [row |-> <<>>, err |-> "none", index |-> 0, prefix |-> <<>>]
NoSnap == [len |-> -1, rows |-> <<>>]
NoLess == [i |-> -1, j |-> -1, result |-> FALSE]

Alloc(h, cell) == [heap |-> Append(h, cell), addr |-> Len(h) + 1]

\* the machine integer of IntBits bits that x wraps to
WrapInt(x) == ((x + 2^(IntBits - 1)) % 2^IntBits) - 2^(IntBits - 1)

\* xs[i], xs[j] = xs[j], xs[i]
SwapSeq(xs, i, j) == [xs EXCEPT ![i + 1] = xs[j + 1], ![j + 1] = xs[i + 1]]

\* xs[from : from+n]
Slice(xs, from, n) == SubSeq(xs, from + 1, from + n)

ReadResult(row, err) == [row |-> row, err |-> err]

\* Value.Int32: the payload, 0 for a null
Int32Of(v) == IF v.kind = "null" THEN 0 ELSE v.v

makeValueInt32(x) == [NullValue EXCEPT !.kind = "int32", !.v = x]

(* int32BufferColumn: the cell at address a holds col.values *)

\* a clone that keeps the values of the original
int32CloneShared(h, a) == [heap |-> h, addr |-> a]

int32Clone(h, a) == Alloc(h, h[a])

int32Page(h, a) == h[a]

int32Reset(h, a) == [h EXCEPT ![a] = <<>>]

int32Len(h, a) == Len(h[a])

int32Less(h, a, i, j) == h[a][i + 1] < h[a][j + 1]

int32Swap(h, a, i, j) == [h EXCEPT ![a] = SwapSeq(h[a], i, j)]

int32WriteRow(h, a, row) ==
    [h EXCEPT ![a] = h[a] \o [k \in 1..Len(row) |-> Int32Of(row[k])]]

int32ReadRowAt(h, a, row, index) ==
    IF index < 0 THEN ReadResult(row, "index out of bounds")
    ELSE IF index >= Len(h[a]) THEN ReadResult(row, "EOF")
    ELSE ReadResult(Append(row, makeValueInt32(h[a][index + 1])), "nil")

\* int32Page.ReadValuesAt: the values from offset on that fit in n slots
int32ReadValuesAt(h, a, offset, n) ==
    LET m == IF offset + n <= Len(h[a]) THEN n
             ELSE IF offset <= Len(h[a]) THEN Len(h[a]) - offset ELSE 0
    IN  [values |-> [k \in 1..m |-> makeValueInt32(h[a][offset + k])],
         err |-> IF offset + m >= Len(h[a]) THEN "EOF" ELSE "nil"]

(* null ordering and null compaction *)

isNull(i, maxDefinitionLevel, definitionLevels) ==
    definitionLevels[i + 1] # maxDefinitionLevel

\* nullsGoFirst with a null before a null too
nullsGoFirstAmongNulls(h, column, i, j, maxDefinitionLevel, definitionLevels) ==
    IF isNull(i, maxDefinitionLevel, definitionLevels)
    THEN TRUE
    ELSE ~isNull(j, maxDefinitionLevel, definitionLevels) /\ int32Less(h, column, i, j)

\* column is the base column, an int32 column in every buffer of the model
nullsGoFirst(h, column, i, j, maxDefinitionLevel, definitionLevels) ==
    IF isNull(i, maxDefinitionLevel, definitionLevels)
    THEN ~isNull(j, maxDefinitionLevel, definitionLevels)
    ELSE ~isNull(j, maxDefinitionLevel, definitionLevels) /\ int32Less(h, column, i, j)

nullsGoLast(h, column, i, j, maxDefinitionLevel, definitionLevels) ==
    IF isNull(i, maxDefinitionLevel, definitionLevels)
    THEN FALSE
    ELSE isNull(j, maxDefinitionLevel, definitionLevels) \/ int32Less(h, column, i, j)

RECURSIVE skipNulls(_, _, _)
\* the inner loop of rowGroupColumnPageWithoutNulls: the first non-null index from j on
skipNulls(j, maxDefinitionLevel, definitionLevels) ==
    IF j < Len(definitionLevels) /\ isNull(j, maxDefinitionLevel, definitionLevels)
    THEN skipNulls(j + 1, maxDefinitionLevel, definitionLevels)
    ELSE j

RECURSIVE compactNulls(_, _, _, _, _, _)

\* compactNulls without column.Swap(n, j)
compactNullsNoSwap(h, a, maxDefinitionLevel, definitionLevels, i, n) ==
    IF i >= Len(definitionLevels) THEN [heap |-> h, n |-> n]
    ELSE LET j == skipNulls(i, maxDefinitionLevel, definitionLevels)
         IN  IF j < Len(definitionLevels)
             THEN compactNulls(h, a, maxDefinitionLevel, definitionLevels, j + 1, n + 1)
             ELSE compactNulls(h, a, maxDefinitionLevel, definitionLevels, j + 1, n)

\* the outer loop of rowGroupColumnPageWithoutNulls from index i on, n values kept
compactNulls(h, a, maxDefinitionLevel, definitionLevels, i, n) ==
    IF i >= Len(definitionLevels) THEN [heap |-> h, n |-> n]
    ELSE LET j == skipNulls(i, maxDefinitionLevel, definitionLevels)
         IN  IF j < Len(definitionLevels)
             THEN compactNulls(int32Swap(h, a, n, j), a, maxDefinitionLevel,
                               definitionLevels, j + 1, n + 1)
             ELSE compactNulls(h, a, maxDefinitionLevel, definitionLevels, j + 1, n)

\* yields the heap after the swaps and the values of column.Page().Slice(0, n)
rowGroupColumnPageWithoutNulls(h, a, maxDefinitionLevel, definitionLevels) ==
    LET c == compactNulls(h, a, maxDefinitionLevel, definitionLevels, 0, 0)
    IN  [heap |-> c.heap, values |-> Slice(int32Page(c.heap, a), 0, c.n)]

(* optionalBufferColumn *)

newOptionalBufferColumn(base, maxDefinitionLevel, definitionLevels, nullOrdering) ==
    [kind |-> "optional", base |-> base, maxDefinitionLevel |-> maxDefinitionLevel,
     definitionLevels |-> definitionLevels, nullOrdering |-> nullOrdering]

optionalClone(h, col) ==
    LET base == int32Clone(h, col.base)
        levels == Alloc(base.heap, base.heap[col.definitionLevels])
    IN  [heap |-> levels.heap,
         buf |-> newOptionalBufferColumn(base.addr, col.maxDefinitionLevel, levels.addr,
                                         col.nullOrdering)]

optionalPage(h, col) ==
    LET p == rowGroupColumnPageWithoutNulls(h, col.base, col.maxDefinitionLevel,
                                            h[col.definitionLevels])
    IN  [heap |-> p.heap, buf |-> col,
         page |-> [err |-> "nil", values |-> p.values, repetitionLevels |-> <<>>,
                   definitionLevels |-> h[col.definitionLevels]]]

\* optionalBufferColumn.Reset without col.base.Reset()
optionalResetLevelsOnly(h, col) == [h EXCEPT ![col.definitionLevels] = <<>>]

optionalReset(h, col) ==
    [int32Reset(h, col.base) EXCEPT ![col.definitionLevels] = <<>>]

optionalLen(h, col) == Len(h[col.definitionLevels])

\* col.nullOrdering(col.base, i, j, col.maxDefinitionLevel, col.definitionLevels)
optionalLess(h, col, i, j) ==
    IF col.nullOrdering = "nullsGoFirst"
    THEN nullsGoFirst(h, col.base, i, j, col.maxDefinitionLevel, h[col.definitionLevels])
    ELSE nullsGoLast(h, col.base, i, j, col.maxDefinitionLevel, h[col.definitionLevels])

\* optionalBufferColumn.Swap leaving the definition levels in place
optionalSwapBaseOnly(h, col, i, j) == int32Swap(h, col.base, i, j)

optionalSwap(h, col, i, j) ==
    [int32Swap(h, col.base, i, j) EXCEPT
        ![col.definitionLevels] = SwapSeq(h[col.definitionLevels], i, j)]

optionalWriteRow(h, col, row) ==
    [int32WriteRow(h, col.base, row) EXCEPT
        ![col.definitionLevels] = @ \o [k \in 1..Len(row) |-> row[k].definitionLevel]]

optionalReadRowAt(h, col, row, index) ==
    IF index < 0 THEN ReadResult(row, "index out of bounds")
    ELSE IF index >= Len(h[col.definitionLevels]) THEN ReadResult(row, "EOF")
    ELSE LET definitionLevel == h[col.definitionLevels][index + 1]
         IN  IF definitionLevel # col.maxDefinitionLevel
             THEN ReadResult(Append(row, [NullValue EXCEPT !.definitionLevel = definitionLevel]),
                             "nil")
             ELSE LET n == Len(row)
                      r == int32ReadRowAt(h, col.base, row, index)
                  IN  IF r.err # "nil" THEN r
                      ELSE IF n = Len(r.row)
                      THEN ReadResult(row, "optional column has no value for row index")
                      ELSE IF n # Len(r.row) - 1
                      THEN ReadResult(row, "optional column has more than one value for row index")
                      ELSE ReadResult([r.row EXCEPT ![n + 1].definitionLevel = definitionLevel],
                                      "nil")

(* repeatedBufferColumn: rows, repetitionLevels and definitionLevels are *)
(* addresses; reordering is <<>> for nil, else <<the cached column>>     *)

region(offset, length) == [offset |-> offset, length |-> length]

newRepeatedBufferColumn(base, maxRepetitionLevel, maxDefinitionLevel, rows, repetitionLevels, definitionLevels, nullOrdering) ==
    [kind |-> "repeated", base |-> base, maxRepetitionLevel |-> maxRepetitionLevel,
     maxDefinitionLevel |-> maxDefinitionLevel, rows |-> rows,
     repetitionLevels |-> repetitionLevels, definitionLevels |-> definitionLevels,
     reordering |-> <<>>, nullOrdering |-> nullOrdering]

\* rowsHaveBeenReordered always answering no
rowsNeverReordered(rows) == FALSE

rowsHaveBeenReordered(rows) ==
    LET RECURSIVE scan(_, _)
        scan(k, offset) ==
            IF k > Len(rows) THEN FALSE
            ELSE IF rows[k].offset # offset THEN TRUE
            ELSE scan(k + 1, offset + rows[k].length)
    IN  scan(1, 0)

maxRowLengthOf(rows) ==
    LET RECURSIVE scan(_, _)
        scan(k, maxLength) ==
            IF k > Len(rows) THEN maxLength
            ELSE scan(k + 1, IF rows[k].length > maxLength THEN rows[k].length ELSE maxLength)
    IN  scan(1, 0)

repeatedClone(h, col) ==
    LET base == int32Clone(h, col.base)
        rows == Alloc(base.heap, base.heap[col.rows])
        reps == Alloc(rows.heap, rows.heap[col.repetitionLevels])
        defs == Alloc(reps.heap, reps.heap[col.definitionLevels])
    IN  [heap |-> defs.heap,
         buf |-> newRepeatedBufferColumn(base.addr, col.maxRepetitionLevel,
                                         col.maxDefinitionLevel, rows.addr, reps.addr,
                                         defs.addr, col.nullOrdering)]

\* repeatedReset without the Reset of the base column
repeatedResetKeepsBase(h, col) ==
    [h EXCEPT ![col.rows] = <<>>, ![col.repetitionLevels] = <<>>,
              ![col.definitionLevels] = <<>>]

repeatedReset(h, col) ==
    [int32Reset(h, col.base) EXCEPT ![col.rows] = <<>>, ![col.repetitionLevels] = <<>>,
                                    ![col.definitionLevels] = <<>>]

\* col.row(n) with the offset counted in rows
repeatedRowByCount(h, col, n) == region(Len(h[col.rows]), n)

\* col.row(n)
repeatedRow(h, col, n) == region(Len(h[col.repetitionLevels]), n)

RECURSIVE reorderValues(_, _, _, _)
\* the first loop of Page from row k on: copy the values of each row, in the
\* current order, into the base of the reordering column
reorderValues(h, col, column, k) ==
    IF k > Len(h[col.rows]) THEN [heap |-> h, err |-> "nil"]
    ELSE LET row == h[col.rows][k]
             r == int32ReadValuesAt(h, col.base, row.offset, row.length)
         IN  IF r.err # "nil" /\ Len(r.values) < row.length
             THEN [heap |-> h, err |-> "reordering values of repeated column"]
             ELSE reorderValues(int32WriteRow(h, column.base, r.values), col, column, k + 1)

RECURSIVE reorderLevels(_, _, _, _)
\* the second loop of Page from row k on
reorderLevels(h, col, column, k) ==
    IF k > Len(h[col.rows]) THEN h
    ELSE LET row == h[col.rows][k]
         IN  reorderLevels(
                 [h EXCEPT ![column.rows] = Append(@, repeatedRow(h, column, row.length)),
                           ![column.repetitionLevels] =
                               @ \o Slice(h[col.repetitionLevels], row.offset, row.length),
                           ![column.definitionLevels] =
                               @ \o Slice(h[col.definitionLevels], row.offset, row.length)],
                 col, column, k + 1)

\* newRepeatedPage over the compacted base
repeatedPageOf(h, col, out, base, repetitionLevels, definitionLevels) ==
    LET p == rowGroupColumnPageWithoutNulls(h, base, col.maxDefinitionLevel,
                                            h[definitionLevels])
    IN  [heap |-> p.heap, buf |-> out,
         page |-> [err |-> "nil", values |-> p.values,
                   repetitionLevels |-> h[repetitionLevels],
                   definitionLevels |-> h[definitionLevels]]]

repeatedPage(h, col) ==
    IF rowsHaveBeenReordered(h[col.rows])
    THEN LET c == IF col.reordering = <<>> THEN repeatedClone(h, col)
                  ELSE [heap |-> h, buf |-> col.reordering[1]]
             column == c.buf
             out == [col EXCEPT !.reordering = <<column>>]
             v == reorderValues(repeatedReset(c.heap, column), col, column, 1)
         IN  IF v.err # "nil"
             THEN [heap |-> v.heap, buf |-> out, page |-> [NoPage EXCEPT !.err = v.err]]
             ELSE repeatedPageOf(reorderLevels(v.heap, col, column, 1), col, out,
                                 column.base, column.repetitionLevels,
                                 column.definitionLevels)
    ELSE repeatedPageOf(h, col, col, col.base, col.repetitionLevels, col.definitionLevels)

repeatedLen(h, col) == Len(h[col.rows])

RECURSIVE repeatedLessFrom(_, _, _, _, _)

\* the loop of Less stopping at the first position, whatever the values there
repeatedLessFromFirstOnly(h, col, row1, row2, k) ==
    IF k < row1.length /\ k < row2.length
    THEN LET x == row1.offset + k
             y == row2.offset + k
         IN  IF k > 0 THEN row1.length < row2.length
             ELSE IF optionalLess(h, col, x, y) THEN TRUE
             ELSE IF optionalLess(h, col, y, x) THEN FALSE
             ELSE repeatedLessFrom(h, col, row1, row2, k + 1)
    ELSE row1.length < row2.length

\* the loop of Less from position k on; less := col.nullOrdering is applied as in
\* the optional column, to the base and the definition levels of this column
repeatedLessFrom(h, col, row1, row2, k) ==
    IF k < row1.length /\ k < row2.length
    THEN LET x == row1.offset + k
             y == row2.offset + k
         IN  IF optionalLess(h, col, x, y) THEN TRUE
             ELSE IF optionalLess(h, col, y, x) THEN FALSE
             ELSE repeatedLessFrom(h, col, row1, row2, k + 1)
    ELSE row1.length < row2.length

repeatedLess(h, col, i, j) ==
    repeatedLessFrom(h, col, h[col.rows][i + 1], h[col.rows][j + 1], 0)

\* repeatedBufferColumn.Swap swapping the values i and j of the base too
repeatedSwapWithBase(h, col, i, j) ==
    [int32Swap(h, col.base, i, j) EXCEPT ![col.rows] = SwapSeq(h[col.rows], i, j)]

repeatedSwap(h, col, i, j) == [h EXCEPT ![col.rows] = SwapSeq(h[col.rows], i, j)]

repeatedWriteRow(h, col, row) ==
    [int32WriteRow(h, col.base, row) EXCEPT
        ![col.rows] = Append(@, repeatedRow(h, col, Len(row))),
        ![col.repetitionLevels] = @ \o [k \in 1..Len(row) |-> row[k].repetitionLevel],
        ![col.definitionLevels] = @ \o [k \in 1..Len(row) |-> row[k].definitionLevel]]

RECURSIVE repeatedReadElements(_, _, _, _, _, _)
\* the loop of ReadRowAt from element i of the region on; an error returns row[:reset]
repeatedReadElements(h, col, reg, reset, row, i) ==
    IF i >= reg.length THEN ReadResult(row, "nil")
    ELSE LET repetitionLevel == h[col.repetitionLevels][reg.offset + i + 1]
             definitionLevel == h[col.definitionLevels][reg.offset + i + 1]
         IN  IF definitionLevel # col.maxDefinitionLevel
             THEN repeatedReadElements(h, col, reg, reset,
                      Append(row, [NullValue EXCEPT !.repetitionLevel = repetitionLevel,
                                                    !.definitionLevel = definitionLevel]),
                      i + 1)
             ELSE LET n == Len(row)
                      r == int32ReadRowAt(h, col.base, row, reg.offset + i)
                  IN  IF r.err # "nil" THEN ReadResult(reset, r.err)
                      ELSE IF n = Len(r.row)
                      THEN ReadResult(reset, "repeated column has no values for element")
                      ELSE IF n # Len(r.row) - 1
                      THEN ReadResult(reset, "repeated column has more than one value for element")
                      ELSE repeatedReadElements(h, col, reg, reset,
                               [r.row EXCEPT ![n + 1].repetitionLevel = repetitionLevel,
                                             ![n + 1].definitionLevel = definitionLevel],
                               i + 1)

repeatedReadRowAt(h, col, row, index) ==
    IF index < 0 THEN ReadResult(row, "index out of bounds")
    ELSE IF index >= Len(h[col.rows]) THEN ReadResult(row, "EOF")
    ELSE repeatedReadElements(h, col, h[col.rows][index + 1], row, row, 0)

(* fixedLenByteArrayBufferColumn: data and tmp are addresses of byte cells. *)
(* The payload of a byte array value is [alias, bytes, addr, from, len]: a  *)
(* copy holds its bytes, a view names len bytes from offset from of a cell. *)

bytesOf(h, p) == IF p.alias THEN Slice(h[p.addr], p.from, p.len) ELSE p.bytes

FixedValue(bytes) ==
    [NullValue EXCEPT !.kind = "fixed",
                      !.v = [alias |-> FALSE, bytes |-> bytes, addr |-> 0, from |-> 0,
                             len |-> Len(bytes)]]

\* Value.ByteArray
ByteArrayOf(h, v) == bytesOf(h, v.v)

\* makeValueBytes keeping a view of data[i:j]
makeValueBytesView(h, a, i, j) ==
    [NullValue EXCEPT !.kind = "fixed",
                      !.v = [alias |-> TRUE, bytes |-> <<>>, addr |-> a, from |-> i,
                             len |-> j - i]]

\* makeValueBytes(FixedLenByteArray, data[i:j]) where data is the cell at a
makeValueBytes(h, a, i, j) == FixedValue(Slice(h[a], i, j - i))

\* copy(dst[from:], bytes)
CopyAt(data, from, bytes) ==
    [k \in 1..Len(data) |->
        IF k > from /\ k <= from + Len(bytes) THEN bytes[k - from] ELSE data[k]]

newFixedLenByteArrayBufferColumn(size, data, tmp) ==
    [kind |-> "fixed", size |-> size, data |-> data, tmp |-> tmp]

fixedClone(h, col) ==
    LET data == Alloc(h, h[col.data])
        tmp == Alloc(data.heap, [k \in 1..col.size |-> 0])
    IN  [heap |-> tmp.heap,
         buf |-> newFixedLenByteArrayBufferColumn(col.size, data.addr, tmp.addr)]

fixedPage(h, col) == h[col.data]

fixedReset(h, col) == [h EXCEPT ![col.data] = <<>>]

fixedLen(h, col) == Len(h[col.data]) \div col.size

\* col.index(i)
fixedIndex(h, col, i) == Slice(h[col.data], i * col.size, col.size)

fixedSwap(h, col, i, j) ==
    LET u == fixedIndex(h, col, i)
        h1 == [h EXCEPT ![col.tmp] = u]
        h2 == [h1 EXCEPT ![col.data] = CopyAt(@, i * col.size, fixedIndex(h1, col, j))]
    IN  [h2 EXCEPT ![col.data] = CopyAt(@, j * col.size, h2[col.tmp])]

RECURSIVE fixedWriteRow(_, _, _)
fixedWriteRow(h, col, row) ==
    IF row = <<>> THEN h
    ELSE fixedWriteRow([h EXCEPT ![col.data] = @ \o ByteArrayOf(h, row[1])], col, Tail(row))

fixedReadRowAt(h, col, row, index) ==
    LET i == WrapInt(index * col.size)
        j == WrapInt(WrapInt(index + 1) * col.size)
    IN  IF i < 0 THEN ReadResult(row, "index out of bounds")
        ELSE IF j > Len(h[col.data]) THEN ReadResult(row, "EOF")
        ELSE IF j < i THEN ReadResult(row, "panic: slice bounds out of range")
        ELSE ReadResult(Append(row, makeValueBytes(h, col.data, i, j)), "nil")

(* the BufferColumn interface: dispatch on the dynamic type of the column *)

BufLen(h, col) ==
    CASE col.kind = "int32" -> int32Len(h, col.values)
      [] col.kind = "optional" -> optionalLen(h, col)
      [] col.kind = "repeated" -> repeatedLen(h, col)
      [] col.kind = "fixed" -> fixedLen(h, col)

\* Less of the int32, optional and repeated columns
BufLess(h, col, i, j) ==
    CASE col.kind = "int32" -> int32Less(h, col.values, i, j)
      [] col.kind = "optional" -> optionalLess(h, col, i, j)
      [] col.kind = "repeated" -> repeatedLess(h, col, i, j)

BufWriteRow(h, col, row) ==
    CASE col.kind = "int32" -> int32WriteRow(h, col.values, row)
      [] col.kind = "optional" -> optionalWriteRow(h, col, row)
      [] col.kind = "repeated" -> repeatedWriteRow(h, col, row)
      [] col.kind = "fixed" -> fixedWriteRow(h, col, row)

BufSwap(h, col, i, j) ==
    CASE col.kind = "int32" -> int32Swap(h, col.values, i, j)
      [] col.kind = "optional" -> optionalSwap(h, col, i, j)
      [] col.kind = "repeated" -> repeatedSwap(h, col, i, j)
      [] col.kind = "fixed" -> fixedSwap(h, col, i, j)

BufReset(h, col) ==
    CASE col.kind = "int32" -> int32Reset(h, col.values)
      [] col.kind = "optional" -> optionalReset(h, col)
      [] col.kind = "repeated" -> repeatedReset(h, col)
      [] col.kind = "fixed" -> fixedReset(h, col)

BufClone(h, col) ==
    CASE col.kind = "int32" ->
            LET c == int32Clone(h, col.values)
            IN  [heap |-> c.heap, buf |-> [kind |-> "int32", values |-> c.addr]]
      [] col.kind = "optional" -> optionalClone(h, col)
      [] col.kind = "repeated" -> repeatedClone(h, col)
      [] col.kind = "fixed" -> fixedClone(h, col)

BufPage(h, col) ==
    CASE col.kind = "int32" ->
            [heap |-> h, buf |-> col,
             page |-> [NoPage EXCEPT !.err = "nil", !.values = int32Page(h, col.values)]]
      [] col.kind = "optional" -> optionalPage(h, col)
      [] col.kind = "repeated" -> repeatedPage(h, col)
      [] col.kind = "fixed" ->
            [heap |-> h, buf |-> col,
             page |-> [NoPage EXCEPT !.err = "nil", !.values = fixedPage(h, col)]]

BufReadRowAt(h, col, row, index) ==
    CASE col.kind = "int32" -> int32ReadRowAt(h, col.values, row, index)
      [] col.kind = "optional" -> optionalReadRowAt(h, col, row, index)
      [] col.kind = "repeated" -> repeatedReadRowAt(h, col, row, index)
      [] col.kind = "fixed" -> fixedReadRowAt(h, col, row, index)

-----------------------------------------------------------------------------
(* Generated schemas and host values *)

Repetitions == {<<"required", FALSE>>, <<"optional", FALSE>>, <<"optional", TRUE>>,
                <<"repeated", FALSE>>}

LeafNodes == {Leaf(r[1], r[2]) : r \in Repetitions}

RECURSIVE NodesAt(_)
\* the nodes nested at most d deep in which a group has one child: groups, lists,
\* and maps from an integer key to a node
NodesAt(d) ==
    IF d = 0 THEN LeafNodes
    ELSE LET sub == NodesAt(d - 1)
         IN  sub
             \cup {Node(r[1], "group", r[2], <<k>>) : r \in Repetitions, k \in sub}
             \cup {Node(r, "list", FALSE, <<e>>) :
                     r \in {"required", "optional"}, e \in {k \in sub : k.rep = "required"}}
             \cup {Node(r, "map", FALSE, <<Leaf("required", FALSE), v>>) :
                     r \in {"required", "optional"}, v \in sub}

\* the groups of two leaves
PairGroups ==
    {Node(r[1], "group", r[2], <<k1, k2>>) :
        r \in Repetitions, k1 \in LeafNodes, k2 \in LeafNodes}

Schemas == NodesAt(MaxDepth) \cup PairGroups

\* the sequences of m elements of S
SeqsOfLen(S, m) == [1..m -> S]

RECURSIVE HostValues(_, _)
RECURSIVE FieldValues(_, _, _)

\* the field sequences of a group value, fields i.. of the node
FieldValues(node, fill, i) ==
    IF i > Len(node.kids) THEN {<<>>}
    ELSE {<<h>> \o t : h \in HostValues(node.kids[i], fill),
                       t \in FieldValues(node, fill, i + 1)}

\* the host values of the type of a node; slices and maps of m elements hold
\* elements generated with the remaining fill divided among them
HostValues(node, fill) ==
    IF Optional(node)
    THEN IF node.ptr
         THEN {NilPtr} \cup {PtrTo(x) : x \in HostValues(RequiredOf(node), fill)}
         ELSE HostValues(RequiredOf(node), fill)
    ELSE IF Repeated(node) \/ isList(node)
    THEN LET elem == IF Repeated(node) THEN RequiredOf(node)
                     ELSE RequiredOf(listElementOf(node))
         IN  {NilSlice, SliceOf(<<>>)}
             \cup UNION {{SliceOf(xs) : xs \in SeqsOfLen(HostValues(elem, (fill - 1) \div m), m)}
                         : m \in (IF fill >= 1 THEN 1..MaxElems ELSE {})}
    ELSE IF isMap(node)
    THEN {NilMap, MapOf(<<>>)}
         \cup UNION {{MapOf(f) : f \in [K -> HostValues(node.kids[2], (fill - 1) \div Cardinality(K))]}
                     : K \in (IF fill >= 1 THEN (SUBSET (1..MaxElems)) \ {{}} ELSE {})}
    ELSE IF isLeaf(node) THEN {IntV(n) : n \in 0..MaxInt}
    ELSE {StructOf(fs) : fs \in FieldValues(node, fill, 1)}

\* the (columnIndex, levels) a closure is invoked with: at the root of a schema,
\* and below the second element of a repeated group that follows one column
CallContexts ==
    {<<0, ZeroLevels>>,
     <<1, [repetitionDepth |-> 1, repetitionLevel |-> 1, definitionLevel |-> 2]>>}

\* {xs: repeated int32}
XsSchema == Node("required", "group", FALSE, <<Leaf("repeated", FALSE)>>)

\* the record {xs: [10, 20, 30]}
XsRecord == StructOf(<<SliceOf(<<IntV(10), IntV(20), IntV(30)>>)>>)

\* records beyond the generated ones
ExampleValues(node) ==
    IF node = XsSchema THEN {XsRecord}
    ELSE IF node = Leaf("repeated", FALSE) THEN {XsRecord.fields[1]}
    ELSE {}

-----------------------------------------------------------------------------
(* Specification of the shredder and assembler *)

ShredIdle ==
    /\ sPhase = "idle" /\ sNode = Leaf("required", FALSE) /\ sColumn = 0
    /\ sCompiled = NotCompiled
    /\ sLevels = ZeroLevels /\ sValue = Invalid
    /\ sRow = <<>> /\ sDest = Invalid /\ sRest = <<>> /\ sErr = NoError

NoCalls ==
    /\ b2 = NoBuffer
    /\ log1 = <<>> /\ hist = "writes" /\ snap = NoSnap /\ touched = <<FALSE, FALSE>>
    /\ calls = 0 /\ last = <<"none", 0>>
    /\ page = NoPage /\ prevPage = NoPage /\ got = NoRead /\ held = <<>>
    /\ less = NoLess

BufIdle == heap = <<>> /\ b1 = NoBuffer /\ NoCalls

ShredInit ==
    /\ sPhase = "start"
    /\ sNode \in Schemas
    /\ \E ctx \in CallContexts : sColumn = ctx[1] /\ sLevels = ctx[2]
    /\ sValue \in HostValues(sNode, MaxFill) \cup ExampleValues(sNode)
    /\ sCompiled = compileFuncOf(sColumn, sNode, <<>>)
    /\ sRow = <<>> /\ sDest = Invalid /\ sRest = <<>> /\ sErr = NoError
    /\ BufIdle

\* row = deconstruct(row[:0], levels, value)
Deconstruct ==
    /\ sPhase = "start"
    /\ sRow' \in deconstructFuncOf(sColumn, sNode, sLevels, sValue)
    /\ sPhase' = "deconstructed"
    /\ UNCHANGED <<sNode, sColumn, sLevels, sValue, sCompiled, sDest, sRest, sErr, bufVars>>

\* reconstruct(value, levels, row) into a fresh zero value of the host type
Reconstruct ==
    /\ sPhase = "deconstructed"
    /\ LET r == reconstructFuncOf(sColumn, sNode, HostZero(sNode), sLevels, sRow)
       IN  sDest' = r.value /\ sRest' = r.row /\ sErr' = r.err
    /\ sPhase' = "reconstructed"
    /\ UNCHANGED <<sNode, sColumn, sLevels, sValue, sCompiled, sRow, bufVars>>

ShredNext == Deconstruct \/ Reconstruct

ShredSpec == ShredInit /\ [][ShredNext]_vars

-----------------------------------------------------------------------------
(* Properties of the shredder and assembler *)

AtRoot == sColumn = 0 /\ sLevels = ZeroLevels
Deconstructed == sPhase \in {"deconstructed", "reconstructed"}

RECURSIVE Reassembled(_, _)
\* the record with every nil slice or map of a present repeated, list or map node
\* replaced by an empty one
Reassembled(node, value) ==
    IF Optional(node)
    THEN IF IsZero(value) THEN value
         ELSE IF value.t = "ptr" THEN PtrTo(Reassembled(RequiredOf(node), value.elem[1]))
         ELSE Reassembled(RequiredOf(node), value)
    ELSE IF Repeated(node) \/ isList(node)
    THEN LET elem == IF Repeated(node) THEN RequiredOf(node)
                     ELSE RequiredOf(listElementOf(node))
         IN  SliceOf([i \in DOMAIN value.elems |-> Reassembled(elem, value.elems[i])])
    ELSE IF isMap(node)
    THEN MapOf([k \in DOMAIN value.entries |-> Reassembled(node.kids[2], value.entries[k])])
    ELSE IF isLeaf(node) THEN value
    ELSE StructOf([i \in DOMAIN value.fields |-> Reassembled(node.kids[i], value.fields[i])])

RECURSIVE LeafMaxLevels(_, _, _)
\* <<maxR, maxD>> of each leaf of a node, in column order: r repeated and d optional
\* or repeated ancestors above the node
LeafMaxLevels(node, r, d) ==
    IF Optional(node) THEN LeafMaxLevels(RequiredOf(node), r, d + 1)
    ELSE IF Repeated(node) THEN LeafMaxLevels(RequiredOf(node), r + 1, d + 1)
    ELSE IF isList(node) THEN LeafMaxLevels(RequiredOf(node.kids[1]), r + 1, d + 1)
    ELSE IF isMap(node)
    THEN LeafMaxLevels(node.kids[1], r + 1, d + 1) \o LeafMaxLevels(node.kids[2], r + 1, d + 1)
    ELSE IF isLeaf(node) THEN <<(<<r, d>>)>>
    ELSE IF Len(node.kids) = 1 THEN LeafMaxLevels(node.kids[1], r, d)
    ELSE LeafMaxLevels(node.kids[1], r, d) \o LeafMaxLevels(node.kids[2], r, d)

\* the node is absent in the value: a zero optional, or a nil or empty collection
Absent(node, value) ==
    IF Optional(node) THEN IsZero(value)
    ELSE IF Repeated(node) \/ isList(node) THEN value.elems = <<>>
    ELSE IF isMap(node) THEN DOMAIN value.entries = {}
    ELSE FALSE

\* C1 as stated: the reconstructor, run on the row of the deconstructor into a fresh
\* zero destination, returns no error, an empty suffix, and a destination equal to
\* the record.
C1_RoundTripExact ==
    sPhase = "reconstructed" =>
        sErr = NoError /\ sRest = <<>> /\ sDest = sValue

\* C1 amended: the reconstructor returns no error, an empty suffix, and a destination
\* equal to the record in which every nil slice or map held by a present repeated,
\* list or map node is replaced by an empty one.
C1_RoundTrip ==
    sPhase = "reconstructed" =>
        sErr = NoError /\ sRest = <<>> /\ sDest = Reassembled(sNode, sValue)

C1_Witness ==
    /\ sPhase = "reconstructed" /\ AtRoot /\ sErr = NoError
    /\ Len(sRow) >= 3 /\ sDest # sValue
    /\ \E i \in DOMAIN sRow : sRow[i].repetitionLevel = 2

\* C2: every emitted value of a leaf L has 0 <= repetitionLevel <= maxR(L) and
\* 0 <= definitionLevel <= maxD(L), and the first value of a row has
\* repetitionLevel 0.
C2_LevelBounds ==
    Deconstructed =>
        LET max == LeafMaxLevels(sNode, sLevels.repetitionDepth, sLevels.definitionLevel)
        IN  /\ \A i \in DOMAIN sRow :
                 LET leaf == ColumnIndex(sRow[i]) - sColumn + 1
                 IN  /\ leaf \in DOMAIN max
                     /\ 0 <= sRow[i].repetitionLevel
                     /\ sRow[i].repetitionLevel <= max[leaf][1]
                     /\ 0 <= sRow[i].definitionLevel
                     /\ sRow[i].definitionLevel <= max[leaf][2]
            /\ sRow # <<>>
            /\ AtRoot => sRow[1].repetitionLevel = 0

C2_Witness ==
    /\ sPhase = "deconstructed" /\ AtRoot
    /\ \E i \in DOMAIN sRow : sRow[i].repetitionLevel = 2 /\ sRow[i].definitionLevel = 2
    /\ \E i \in DOMAIN sRow : sRow[i].repetitionLevel = 1

\* C3: every emitted value has repetitionLevel <= definitionLevel, also for empty or
\* absent collections nested inside non-empty ones.
C3_RepetitionBelowDefinition ==
    Deconstructed =>
        \A i \in DOMAIN sRow : sRow[i].repetitionLevel <= sRow[i].definitionLevel

C3_Witness ==
    /\ sPhase = "deconstructed" /\ AtRoot
    /\ \E i \in DOMAIN sRow :
         /\ sRow[i].kind = "null"
         /\ sRow[i].repetitionLevel = 1
         /\ sRow[i].definitionLevel = 1

\* C4: when the optional node is absent, or the repeated node absent or empty, the
\* deconstructor emits exactly one value per leaf column below the node, each a null
\* at the definition level current before the node, and nothing else.
C4_NullPreservation ==
    (Deconstructed /\ Absent(sNode, sValue)) =>
        /\ Len(sRow) = nextColumnIndexOf(sColumn, sNode) - sColumn
        /\ \A i \in DOMAIN sRow :
             /\ ColumnIndex(sRow[i]) = sColumn + i - 1
             /\ sRow[i].kind = "null"
             /\ sRow[i].definitionLevel = sLevels.definitionLevel

C4_Witness ==
    /\ sPhase = "deconstructed" /\ Absent(sNode, sValue)
    /\ Repeated(sNode) /\ sValue.nil = FALSE
    /\ Len(sRow) = 2 /\ sLevels.definitionLevel = 2

-----------------------------------------------------------------------------
(* Specification of the column buffers: b1 is created empty, then written,  *)
(* swapped, read, paged, reset and cloned; the clone b2 takes the same      *)
(* calls.                                                                    *)

MinInt == -(2^(IntBits - 1))

Payloads == 0..MaxInt

\* a value of the first column, as the deconstructor produces it
WithColumn(v) == [v EXCEPT !.columnIndex = complementInt8(0)]

Int32Rows == {<<WithColumn(makeValueInt32(x))>> : x \in Payloads}

\* rows of an optional column of maximum definition level 1
OptionalRows ==
    {<<WithColumn(NullValue)>>}
        \cup {<<WithColumn([makeValueInt32(x) EXCEPT !.definitionLevel = 1])>> : x \in Payloads}

\* element k of a row of a repeated column of optional elements: a null for c = -1
RepeatedElement(k, c) ==
    WithColumn([(IF c = -1 THEN NullValue ELSE makeValueInt32(c)) EXCEPT
                    !.repetitionLevel = IF k = 1 THEN 0 ELSE 1,
                    !.definitionLevel = IF c = -1 THEN 1 ELSE 2])

\* rows of a repeated column of maximum levels 1 and 2: the empty list, or
\* 1..MaxRowLen elements each null or not
RepeatedRows ==
    {<<WithColumn(NullValue)>>}
        \cup UNION {{[k \in 1..n |-> RepeatedElement(k, c[k])] :
                        c \in [1..n -> {-1} \cup Payloads]} : n \in 1..MaxRowLen}

FixedRows == {<<WithColumn(FixedValue([k \in 1..FixedSize |-> x]))>> : x \in Payloads}

RowsOf(col) ==
    CASE col.kind = "int32" -> Int32Rows
      [] col.kind = "optional" -> OptionalRows
      [] col.kind = "repeated" -> RepeatedRows
      [] col.kind = "fixed" -> FixedRows

\* the buffers as their constructors leave them
NewBuffers ==
    {[heap |-> <<<<>>>>, buf |-> [kind |-> "int32", values |-> 1]],
     [heap |-> <<<<>>, <<>>>>, buf |-> newOptionalBufferColumn(1, 1, 2, "nullsGoFirst")],
     [heap |-> <<<<>>, <<>>>>, buf |-> newOptionalBufferColumn(1, 1, 2, "nullsGoLast")],
     [heap |-> <<<<>>, <<>>, <<>>, <<>>>>,
      buf |-> newRepeatedBufferColumn(1, 1, 2, 2, 3, 4, "nullsGoFirst")],
     [heap |-> <<<<>>, <<>>, <<>>, <<>>>>,
      buf |-> newRepeatedBufferColumn(1, 1, 2, 2, 3, 4, "nullsGoLast")],
     [heap |-> <<<<>>, [k \in 1..FixedSize |-> 0]>>,
      buf |-> newFixedLenByteArrayBufferColumn(FixedSize, 1, 2)]}

\* the indexes ReadRowAt is called with: around the rows, and at the ends of int
ReadIndexes(h, col) ==
    (-1..(BufLen(h, col) + 1))
        \cup {MinInt, -MinInt - 1, 2^(IntBits - 2) - 1, 2^(IntBits - 2)}

\* the rows ReadRowAt is asked to append to
Prefixes(col) ==
    {<<>>, <<IF col.kind = "fixed" THEN FixedValue([k \in 1..FixedSize |-> 0])
             ELSE makeValueInt32(0)>>}

\* the payloads of a row as they read now
PayloadsOf(h, row) ==
    [k \in 1..Len(row) |-> IF row[k].kind = "fixed" THEN ByteArrayOf(h, row[k]) ELSE row[k].v]

\* every row of a buffer, read back
ReadAll(h, col) == [k \in 1..BufLen(h, col) |-> BufReadRowAt(h, col, <<>>, k - 1)]

Buf(k) == IF k = 1 THEN b1 ELSE b2

Ready(k) == Buf(k).kind # "none" /\ calls < MaxCalls

Called(k, call, rows, after) ==
    /\ calls' = calls + 1
    /\ last' = <<call, k>>
    /\ log1' = IF k = 1 THEN rows ELSE log1
    /\ hist' = IF k = 1 THEN after ELSE hist
    /\ touched' = IF b2.kind # "none" THEN [touched EXCEPT ![k] = TRUE] ELSE touched
    /\ snap' = snap

NoPages == page' = NoPage /\ prevPage' = NoPage

NoReads == got' = NoRead /\ held' = <<>> /\ less' = NoLess

StillWrites == IF hist = "writes" THEN "writes" ELSE "mixed"

StillWritten == IF hist \in {"writes", "reset"} THEN hist ELSE "mixed"

Init ==
    /\ ShredIdle
    /\ \E n \in NewBuffers : heap = n.heap /\ b1 = n.buf
    /\ NoCalls

WriteRow(k) ==
    /\ Ready(k)
    /\ BufLen(heap, Buf(k)) < MaxRows
    /\ \E row \in RowsOf(Buf(k)) :
          /\ heap' = BufWriteRow(heap, Buf(k), row)
          /\ Called(k, "WriteRow", Append(log1, row), StillWritten)
    /\ NoPages /\ NoReads
    /\ UNCHANGED <<b1, b2, shredVars>>

\* Swap leaves the rows read before in the caller's hands
Swap(k) ==
    /\ Ready(k)
    /\ \E i, j \in 0..(BufLen(heap, Buf(k)) - 1) :
          /\ i < j
          /\ heap' = BufSwap(heap, Buf(k), i, j)
          /\ Called(k, "Swap", IF k = 1 THEN SwapSeq(log1, i, j) ELSE log1, StillWrites)
    /\ NoPages
    /\ IF k = 1 THEN UNCHANGED <<got, held>> /\ less' = NoLess ELSE NoReads
    /\ UNCHANGED <<b1, b2, shredVars>>

Reset(k) ==
    /\ Ready(k)
    /\ heap' = BufReset(heap, Buf(k))
    /\ Called(k, "Reset", <<>>, "reset")
    /\ NoPages /\ NoReads
    /\ UNCHANGED <<b1, b2, shredVars>>

\* Page may compact the base in place and may set the reordering column
Page(k) ==
    /\ Ready(k)
    /\ LET r == BufPage(heap, Buf(k))
       IN  /\ heap' = r.heap
           /\ IF k = 1 THEN b1' = r.buf /\ b2' = b2 ELSE b2' = r.buf /\ b1' = b1
           /\ page' = IF k = 1 THEN r.page ELSE NoPage
    /\ prevPage' = IF k = 1 /\ last = <<"Page", 1>> THEN page ELSE NoPage
    /\ Called(k, "Page", log1, IF hist = "writes" THEN "paged" ELSE "mixed")
    /\ NoReads
    /\ UNCHANGED shredVars

\* b2 = b1.Clone(), with a snapshot of what b1 reads as
Clone ==
    /\ Ready(1)
    /\ b2.kind = "none"
    /\ LET c == BufClone(heap, b1)
       IN  heap' = c.heap /\ b2' = c.buf
    /\ snap' = [len |-> BufLen(heap, b1), rows |-> ReadAll(heap, b1)]
    /\ touched' = <<FALSE, FALSE>>
    /\ calls' = calls + 1
    /\ last' = <<"Clone", 1>>
    /\ NoPages /\ NoReads
    /\ UNCHANGED <<b1, log1, hist, shredVars>>

\* row, err = b1.ReadRowAt(prefix, index)
ReadRowAt ==
    /\ Ready(1)
    /\ \E index \in ReadIndexes(heap, b1), prefix \in Prefixes(b1) :
          LET r == BufReadRowAt(heap, b1, prefix, index)
          IN  /\ got' = [row |-> r.row, err |-> r.err, index |-> index, prefix |-> prefix]
              /\ held' = PayloadsOf(heap, r.row)
    /\ calls' = calls + 1
    /\ last' = <<"ReadRowAt", 1>>
    /\ less' = NoLess
    /\ NoPages
    /\ UNCHANGED <<heap, b1, b2, log1, hist, snap, touched, shredVars>>

\* b1.Less(i, j), on the columns whose Less is modelled
Less ==
    /\ Ready(1)
    /\ b1.kind \in {"int32", "optional", "repeated"}
    /\ \E i, j \in 0..(BufLen(heap, b1) - 1) :
          less' = [i |-> i, j |-> j, result |-> BufLess(heap, b1, i, j)]
    /\ calls' = calls + 1
    /\ last' = <<"Less", 1>>
    /\ got' = NoRead /\ held' = <<>>
    /\ NoPages
    /\ UNCHANGED <<heap, b1, b2, log1, hist, snap, touched, shredVars>>

Next ==
    \/ \E k \in {1, 2} : WriteRow(k)
    \/ \E k \in {1, 2} : Swap(k)
    \/ \E k \in {1, 2} : Reset(k)
    \/ \E k \in {1, 2} : Page(k)
    \/ Clone
    \/ ReadRowAt
    \/ Less

Spec == Init /\ [][Next]_vars

-----------------------------------------------------------------------------
(* Properties of the column buffers *)

\* a written row as ReadRowAt returns it: payloads and levels, no column index
LogicalRow(row) == [k \in 1..Len(row) |-> [row[k] EXCEPT !.columnIndex = 0]]

RECURSIVE FlatRows(_)
\* the values of the rows, one row after the other
FlatRows(rows) == IF rows = <<>> THEN <<>> ELSE rows[1] \o FlatRows(Tail(rows))

IsValue(v) == v.kind # "null"

OnlyWrites == b1.kind # "none" /\ hist = "writes"

\* C5: after WriteRow and Swap calls only, ReadRowAt(i) for 0 <= i < Len()
\* appends exactly the row at logical position i (the written rows permuted by
\* the swaps), with its payloads and levels, nulls carrying only their levels.
C5_ReadOrder ==
    OnlyWrites =>
        /\ BufLen(heap, b1) = Len(log1)
        /\ \A i \in 0..(Len(log1) - 1) :
              BufReadRowAt(heap, b1, <<>>, i) = ReadResult(LogicalRow(log1[i + 1]), "nil")
        /\ (last = <<"ReadRowAt", 1>> /\ got.index >= 0 /\ got.index < Len(log1)) =>
              /\ got.err = "nil"
              /\ got.row = got.prefix \o LogicalRow(log1[got.index + 1])

\* a swapped row of a repeated buffer, a null first, is read back from position 0
C5_Witness ==
    /\ OnlyWrites /\ b1.kind = "repeated"
    /\ last = <<"ReadRowAt", 1>> /\ got.index = 0 /\ got.err = "nil"
    /\ Len(log1) = 2 /\ heap[b1.rows][1].offset # 0
    /\ got.row = got.prefix \o LogicalRow(log1[1])
    /\ Len(log1[1]) = 2 /\ log1[1][1].kind = "null" /\ log1[1][2].kind # "null"

\* C6: two Page() calls in a row on an optional or repeated buffer yield pages
\* of equal contents (same compacted payloads, same level arrays).
C6_PageIdempotent ==
    (/\ b1.kind \in {"optional", "repeated"}
     /\ last = <<"Page", 1>>
     /\ prevPage.err # "none") => page = prevPage

RepeatedPaged == b1.kind = "repeated" /\ hist = "paged" /\ last = <<"Page", 1>>

\* C7: Page() of a repeated buffer after WriteRow and Swap calls has the
\* rows' repetition and definition levels concatenated in the current row
\* order, and the non-null payloads of those rows in that order.
C7_ReorderedPage ==
    RepeatedPaged =>
        LET flat == FlatRows(log1)
            values == SelectSeq(flat, IsValue)
        IN  /\ page.err = "nil"
            /\ page.repetitionLevels = [k \in 1..Len(flat) |-> flat[k].repetitionLevel]
            /\ page.definitionLevels = [k \in 1..Len(flat) |-> flat[k].definitionLevel]
            /\ page.values = [k \in 1..Len(values) |-> values[k].v]

\* the page of two swapped rows, a null among their values
C7_Witness ==
    /\ RepeatedPaged
    /\ rowsHaveBeenReordered(heap[b1.rows])
    /\ b1.reordering # <<>>
    /\ Len(page.values) >= 2 /\ Len(page.values) < Len(page.definitionLevels)
    /\ page.values = <<1, 0>>

Unchanged(col) == BufLen(heap, col) = snap.len /\ ReadAll(heap, col) = snap.rows

\* C8: after b2 = b1.Clone(), WriteRow, Swap, Reset and Page calls on b1
\* leave b2.Len() and every b2.ReadRowAt(i) as at clone time, and calls on b2
\* leave b1 so.
C8_CloneIsolation ==
    b2.kind # "none" =>
        /\ ~touched[2] => Unchanged(b2)
        /\ ~touched[1] => Unchanged(b1)

\* b1 was swapped and paged after the clone, and reads differently from b2
C8_Witness ==
    /\ b2.kind = "repeated" /\ touched = <<TRUE, FALSE>>
    /\ last = <<"Page", 1>>
    /\ snap.len = 2 /\ Unchanged(b2)
    /\ ReadAll(heap, b1) # snap.rows

C10_ReadRowAtBounds ==
    last = <<"ReadRowAt", 1>> =>
        /\ got.index < 0 => got.err = "index out of bounds" /\ got.row = got.prefix
        /\ got.index >= BufLen(heap, b1) => got.err = "EOF" /\ got.row = got.prefix

-----------------------------------------------------------------------------
(* Specification of compilation: the deconstructor is compiled for a       *)
(* schema at a column index, and if that returns, a record is shredded and *)
(* reassembled.  The schemas are the generated ones and groups around the  *)
(* limit of the column index.  The schema may be the subtree below a chain *)
(* of present optional or non-empty repeated ancestors: these compile to   *)
(* what their subtree compiles to (row.go lines 64 and 82) and invoke its  *)
(* closure with their levels, so they are modelled by the levels the       *)
(* closure is invoked with.                                                *)

\* children to a group of the wide schemas
GroupWidth == 4

RECURSIVE ChunkOf(_, _)
\* the largest power of GroupWidth below n, from c on
ChunkOf(n, c) == IF c * GroupWidth >= n THEN c ELSE ChunkOf(n, c * GroupWidth)

RECURSIVE WideGroup(_)
\* a schema of n required leaves: a tree of groups of at most GroupWidth children
WideGroup(n) ==
    IF n = 1 THEN Leaf("required", FALSE)
    ELSE LET c == ChunkOf(n, 1)
             m == (n + c - 1) \div c
         IN  Node("required", "group", FALSE,
                  [i \in 1..m |-> WideGroup(IF i < m THEN c ELSE n - c * (m - 1))])

LimitSchemas ==
    {WideGroup(n) : n \in (MaxColumnIndex - CompileSlack)..(MaxColumnIndex + 1 + CompileSlack)}

\* the column indexes compilation starts at
StartColumns == {0, 1, MaxColumnIndex - 1, MaxColumnIndex}

\* the levels below n optional or repeated ancestors, the last element of a
\* repeated one or not, for n up to the limit of the levels
LimitLevels ==
    UNION {{[repetitionDepth |-> n, repetitionLevel |-> r, definitionLevel |-> n] :
                r \in {0, n}} : n \in (MaxRepetitionLevel - CompileSlack)..MaxRepetitionLevel}
        \cup {[repetitionDepth |-> 0, repetitionLevel |-> 0, definitionLevel |-> n] :
                n \in (MaxDefinitionLevel - CompileSlack)..MaxDefinitionLevel}

RECURSIVE FullValue(_)
\* the record of a schema in which everything is present, one element to a collection
FullValue(node) ==
    IF Optional(node)
    THEN IF node.ptr THEN PtrTo(FullValue(RequiredOf(node))) ELSE FullValue(RequiredOf(node))
    ELSE IF Repeated(node) THEN SliceOf(<<FullValue(RequiredOf(node))>>)
    ELSE IF isList(node) THEN SliceOf(<<FullValue(RequiredOf(listElementOf(node)))>>)
    ELSE IF isMap(node) THEN MapOf([k \in {1} |-> FullValue(node.kids[2])])
    ELSE IF isLeaf(node) THEN IntV(1)
    ELSE StructOf([i \in 1..Len(node.kids) |-> FullValue(node.kids[i])])

CompileInit ==
    /\ sPhase = "uncompiled"
    /\ \/ sNode \in Schemas /\ sColumn \in StartColumns /\ sLevels = ZeroLevels
       \/ sNode \in Schemas /\ sColumn = 0 /\ sLevels \in LimitLevels
       \/ sNode \in LimitSchemas /\ sColumn \in {0, 1} /\ sLevels = ZeroLevels
    /\ sValue \in {FullValue(sNode), HostZero(sNode)}
    /\ sCompiled = NotCompiled
    /\ sRow = <<>> /\ sDest = Invalid /\ sRest = <<>> /\ sErr = NoError
    /\ BufIdle

\* columnIndex, deconstruct := deconstructFuncOf(columnIndex, node)
Compile ==
    /\ sPhase = "uncompiled"
    /\ sCompiled' = compileFuncOf(sColumn, sNode, <<>>)
    /\ sPhase' = IF sCompiled'.ok THEN "start" ELSE "panicked"
    /\ UNCHANGED <<sNode, sColumn, sLevels, sValue, sRow, sDest, sRest, sErr, bufVars>>

CompileNext == Compile \/ Deconstruct \/ Reconstruct

CompileSpec == CompileInit /\ [][CompileNext]_vars

-----------------------------------------------------------------------------
(* Properties of compilation *)

RECURSIVE LeafPaths(_, _)
\* the leaves of a node, each named by its path of child positions, depth first
\* in the order the children are declared
LeafPaths(node, path) ==
    IF isLeaf(node) THEN <<path>>
    ELSE FlatRows([i \in 1..Len(node.kids) |-> LeafPaths(node.kids[i], Append(path, i))])

NumLeaves == Len(LeafPaths(sNode, <<>>))

Compiling == sPhase # "uncompiled" /\ sPhase # "idle"

\* C11: compiling the deconstructor for a schema of more than 127 leaf columns
\* fails at compile time, and a schema of 127 or fewer leaf columns compiles.
C11_SchemaOverflow ==
    (Compiling /\ sColumn = 0) => (sCompiled.ok <=> NumLeaves <= 127)

\* C12: compiling a schema in which some leaf has a maximum repetition or
\* definition level above 127 fails, so that no emitted level wraps around the
\* signed 8-bit range.
C12_LevelsBudget ==
    /\ (/\ Compiling /\ sNode \in Schemas
        /\ \E k \in 1..NumLeaves :
              LET m == LeafMaxLevels(sNode, sLevels.repetitionDepth, sLevels.definitionLevel)[k]
              IN  m[1] > MaxRepetitionLevel \/ m[2] > MaxDefinitionLevel)
          => ~sCompiled.ok
    /\ Deconstructed =>
          \A k \in 1..Len(sRow) :
              /\ sRow[k].repetitionLevel \in 0..MaxRepetitionLevel
              /\ sRow[k].definitionLevel \in 0..MaxDefinitionLevel

\* C13: deconstructFuncOf(c, node) numbers the leaves of node c, c+1, ... depth
\* first in declaration order and returns c plus the number of leaves; every
\* index is unique and in [0, 127]; compilation fails exactly when a leaf would
\* receive an index above 127.  The values shredded carry these indexes.
C13_ColumnNumbering ==
    Compiling =>
        LET paths == LeafPaths(sNode, <<>>)
            n == Len(paths)
        IN  /\ sCompiled.ok <=> sColumn + n - 1 <= MaxColumnIndex
            /\ sCompiled.ok =>
                  /\ sCompiled.columnIndex = sColumn + n
                  /\ sCompiled.columnIndex = nextColumnIndexOf(sColumn, sNode)
                  /\ sCompiled.columns =
                         [k \in 1..n |-> [path |-> paths[k], index |-> sColumn + k - 1]]
                  /\ \A k \in 1..n : sCompiled.columns[k].index \in 0..MaxColumnIndex
                  /\ \A k \in 1..Len(sRow) :
                         ColumnIndex(sRow[k]) \in sColumn..(sColumn + n - 1)

\* a schema of nested groups compiled from column 1 up to column 127, and shredded
C13_Witness ==
    /\ sPhase = "deconstructed" /\ sColumn = 1 /\ sCompiled.ok
    /\ sCompiled.columnIndex = MaxColumnIndex + 1
    /\ Len(sCompiled.columns[1].path) > 1
    /\ Len(sRow) = MaxColumnIndex /\ ColumnIndex(sRow[Len(sRow)]) = MaxColumnIndex

-----------------------------------------------------------------------------
(* Specification of the assembler on rows it did not shred: the row of a    *)
(* record with one value removed, cut short, or one value moved to another *)
(* column.                                                                  *)

RequiredLeaf == Leaf("required", FALSE)

\* groups of two leaves, required or optional, under every repetition
InnerGroups ==
    {Node(r[1], "group", r[2], <<k1, k2>>) :
        r \in Repetitions, k1 \in {RequiredLeaf, Leaf("optional", FALSE)},
        k2 \in {RequiredLeaf, Leaf("optional", TRUE)}}

\* groups of groups, two and three levels deep
PathSchemas ==
    {Node("required", "group", FALSE, <<a, b>>) :
        a \in {RequiredLeaf} \cup InnerGroups, b \in {RequiredLeaf} \cup InnerGroups}
    \cup {Node("required", "group", FALSE,
               <<RequiredLeaf, Node("required", "group", FALSE, <<g, RequiredLeaf>>), RequiredLeaf>>) :
             g \in InnerGroups}

\* the row with value k removed
WithoutValue(row, k) == SubSeq(row, 1, k - 1) \o SubSeq(row, k + 1, Len(row))

\* the row with value k tagged with column c
Retagged(row, k, c) == [row EXCEPT ![k].columnIndex = complementInt8(c)]

\* the rows handed to the assembler for a row of n columns from column c on
InputRows(row, c, n) ==
    {row}
    \cup {SubSeq(row, 1, k - 1) : k \in 1..Len(row)}
    \cup {WithoutValue(row, k) : k \in 1..Len(row)}
    \cup {Retagged(row, k, d) : k \in 1..Len(row), d \in c..(c + n - 1)}

AssembleInit ==
    /\ sPhase = "row"
    /\ sNode \in PathSchemas
    /\ sColumn \in {0, 1} /\ sLevels = ZeroLevels
    /\ sValue = FullValue(sNode)
    /\ sCompiled = compileFuncOf(sColumn, sNode, <<>>)
    /\ \E row \in deconstructFuncOf(sColumn, sNode, sLevels, sValue) :
          sRow \in InputRows(row, sColumn, sCompiled.columnIndex - sColumn)
    /\ sDest = HostZero(sNode) /\ sRest = <<>> /\ sErr = NoError
    /\ BufIdle

\* row, err = reconstruct(value, levels, row)
ReconstructRow ==
    /\ sPhase = "row"
    /\ LET r == reconstructFuncOf(sColumn, sNode, sDest, sLevels, sRow)
       IN  sDest' = r.value /\ sRest' = r.row /\ sErr' = r.err
    /\ sPhase' = "assembled"
    /\ UNCHANGED <<sNode, sColumn, sLevels, sValue, sCompiled, sRow, bufVars>>

AssembleNext == ReconstructRow

AssembleSpec == AssembleInit /\ [][AssembleNext]_vars

-----------------------------------------------------------------------------
(* Properties of the assembler's errors *)

LeafErrors == {"expected one value to reconstruct leaf parquet row",
               "no values found in parquet row for column"}

Assembled == sPhase = "assembled"

\* a leaf failed: the error ends with the message of a leaf
LeafFailed == Assembled /\ sErr # NoError /\ sErr[Len(sErr)] \in LeafErrors

RECURSIVE RequiredOnly(_)
\* no node of the schema is optional or repeated
RequiredOnly(node) ==
    /\ node.rep = "required"
    /\ \A i \in 1..Len(node.kids) : RequiredOnly(node.kids[i])

RECURSIVE StoppedAt(_, _, _)
\* in the destination, the groups on the path did not run the children after
\* the one on the path, and the leaf at its end was not assigned
StoppedAt(node, value, path) ==
    IF Optional(node)
    THEN IF node.ptr
         THEN value.elem # <<>> /\ StoppedAt(RequiredOf(node), value.elem[1], path)
         ELSE StoppedAt(RequiredOf(node), value, path)
    ELSE IF Repeated(node)
    THEN /\ value.elems # <<>>
         /\ StoppedAt(RequiredOf(node), value.elems[Len(value.elems)], path)
    ELSE IF isLeaf(node) THEN path = <<>> /\ value = IntV(0)
    ELSE /\ path # <<>> /\ path[1] \in 1..Len(node.kids)
         /\ StoppedAt(node.kids[path[1]], value.fields[path[1]], Tail(path))
         /\ \A j \in (path[1] + 1)..Len(node.kids) : value.fields[j] = HostZero(node.kids[j])

\* the first leaf, counted from 1, that does not find its value in the row; 0 if none
FirstFailing(row, c, n) ==
    LET failing == {k \in 1..n : k > Len(row) \/ ColumnIndex(row[k]) # c + k - 1}
    IN  IF failing = {} THEN 0 ELSE CHOOSE k \in failing : \A j \in failing : k <= j

\* C14: when a leaf fails during reconstruction, the error returned at the root
\* is the leaf's error prefixed by the names of the group children on the path
\* from the root to that leaf, outermost first; the failing group stops at its
\* first failing child and returns the row as that child left it.
C14_ErrorPath ==
    /\ LeafFailed =>
          LET path == SubSeq(sErr, 1, Len(sErr) - 1)
              columns == sCompiled.columns
          IN  /\ \E k \in 1..Len(columns) :
                    /\ columns[k].path = path
                    /\ reconstructFuncOfLeaf(columns[k].index, RequiredLeaf, IntV(0),
                                             sLevels, sRest).err = <<sErr[Len(sErr)]>>
              /\ \E n \in 0..Len(sRow) : sRest = DropFirst(sRow, n)
              /\ StoppedAt(sNode, sDest, path)
    /\ (Assembled /\ RequiredOnly(sNode)) =>
          LET paths == LeafPaths(sNode, <<>>)
              f == FirstFailing(sRow, sColumn, Len(paths))
          IN  IF f = 0 THEN sErr = NoError
              ELSE /\ LeafFailed
                   /\ SubSeq(sErr, 1, Len(sErr) - 1) = paths[f]
                   /\ sErr[Len(sErr)] = IF f > Len(sRow)
                                        THEN "expected one value to reconstruct leaf parquet row"
                                        ELSE "no values found in parquet row for column"
                   /\ sRest = DropFirst(sRow, f - 1)

\* the second leaf of a nested group fails on a value that a later child would
\* have taken, below a first child that was assembled
C14_Witness ==
    /\ LeafFailed /\ Len(sErr) = 3 /\ sErr[1] = 2 /\ sErr[2] = 2
    /\ sRest # <<>> /\ Len(sRest) < Len(sRow)
    /\ ColumnIndex(sRest[1]) = sCompiled.columnIndex - 1

-----------------------------------------------------------------------------
(* Properties of the shredder on particular schemas *)

\* the value of column c with levels (r, d) and payload x
ValueAt(c, r, d, x) ==
    [kind |-> "int32", v |-> x, columnIndex |-> complementInt8(c),
     repetitionLevel |-> r, definitionLevel |-> d]

\* the null of column c with levels (r, d)
NullAt(c, r, d) ==
    [NullValue EXCEPT !.columnIndex = complementInt8(c),
                      !.repetitionLevel = r, !.definitionLevel = d]

\* {pairs: map<K, int32>}, the map node required or optional
PairsSchema(rep) ==
    Node("required", "group", FALSE, <<Node(rep, "map", FALSE, <<RequiredLeaf, RequiredLeaf>>)>>)

ShreddedAtRoot == Deconstructed /\ AtRoot

\* C15 as stated: the record {pairs: {k: x}} is shredded into two values at
\* repetition level 0 and definition level 2, and a record with an empty map
\* into two nulls at definition level 0.
C15_MapShreddingExact ==
    (ShreddedAtRoot /\ sNode = PairsSchema("required")) =>
        LET entries == sValue.fields[1].entries
        IN  /\ \A k \in DOMAIN entries :
                  DOMAIN entries = {k} =>
                      sRow = <<ValueAt(0, 0, 2, k), ValueAt(1, 0, 2, entries[k].v)>>
            /\ DOMAIN entries = {} => sRow = <<NullAt(0, 0, 0), NullAt(1, 0, 0)>>

\* C15: for schema {pairs: map<K, int32>} the record {pairs: {k: x}} is shredded
\* into exactly two values, the key in column 0 and x in column 1, both at
\* repetition level 0 and at definition level 1 when the map node is required
\* and 2 when it is optional; a record whose map is nil or empty is shredded
\* into exactly two nulls at definition level 0, except that an empty map that
\* is not nil under an optional map node gives them definition level 1.
C15_MapShredding ==
    \A rep \in {"required", "optional"} :
        (ShreddedAtRoot /\ sNode = PairsSchema(rep)) =>
            LET pairs == sValue.fields[1]
                d == IF rep = "optional" THEN 1 ELSE 0
                e == IF rep = "optional" /\ ~pairs.nil THEN 1 ELSE 0
            IN  /\ \A k \in DOMAIN pairs.entries :
                      DOMAIN pairs.entries = {k} =>
                          sRow = <<ValueAt(0, 0, d + 1, k),
                                   ValueAt(1, 0, d + 1, pairs.entries[k].v)>>
                /\ DOMAIN pairs.entries = {} => sRow = <<NullAt(0, 0, e), NullAt(1, 0, e)>>

\* the record {pairs: {1: 1}} under a required map node, shredded
C15_Witness ==
    /\ sPhase = "deconstructed" /\ AtRoot /\ sNode = PairsSchema("required")
    /\ sValue = StructOf(<<MapOf(<<IntV(1)>>)>>)
    /\ Len(sRow) = 2 /\ sRow[1].v = 1 /\ sRow[2].definitionLevel = 1

EmptyRepeatedLeaf == sNode = Leaf("repeated", FALSE) /\ sValue.elems = <<>>

\* what the reconstructor does with the row of an empty repeated leaf
EmptyListAssembled ==
    sPhase = "reconstructed" =>
        sErr = NoError /\ sDest = SliceOf(<<>>) /\ sRest = DropFirst(sRow, 1)

\* C16 as stated: an empty collection of a repeated leaf is shredded into a
\* single null at repetition level 0 and the enclosing definition level;
\* reconstructing the row gives an empty sequence that is not nil and consumes
\* one value.
C16_EmptyListExact ==
    EmptyRepeatedLeaf =>
        /\ Deconstructed => sRow = <<NullAt(sColumn, 0, sLevels.definitionLevel)>>
        /\ EmptyListAssembled

\* C16: an empty collection of a repeated leaf is shredded into a single null
\* at the repetition level and the definition level the closure was called
\* with (repetition level 0 unless the leaf is below a repeated ancestor that is
\* past its first element); reconstructing the row gives an empty sequence that
\* is not nil and consumes one value.
C16_EmptyList ==
    EmptyRepeatedLeaf =>
        /\ Deconstructed =>
              sRow = <<NullAt(sColumn, sLevels.repetitionLevel, sLevels.definitionLevel)>>
        /\ EmptyListAssembled

\* a nil collection below the second element of a repeated ancestor, reassembled
C16_Witness ==
    /\ sPhase = "reconstructed" /\ EmptyRepeatedLeaf /\ sValue.nil
    /\ sLevels.repetitionLevel = 1 /\ sRow[1].repetitionLevel = 1
    /\ sDest = SliceOf(<<>>)

\* {g: optional {xs: repeated int32}}, g held by a pointer or by value
OptionalGroupSchema(ptr) ==
    Node("required", "group", FALSE,
         <<Node("optional", "group", ptr, <<Leaf("repeated", FALSE)>>)>>)

\* C17: for schema {g: optional {xs: repeated int32}}, an absent g (a nil
\* pointer, or the zero value of a g held by value) is shredded into one null
\* at definition level 0, a present g whose xs is empty into one null at
\* definition level 1, and a present g with xs = [x] into the value x at
\* repetition level 0 and definition level 2.
C17_OptionalGroupRepeatedLeaf ==
    \A ptr \in BOOLEAN :
        (ShreddedAtRoot /\ sNode = OptionalGroupSchema(ptr)) =>
            LET g == sValue.fields[1]
                xs == IF ptr THEN g.elem[1].fields[1] ELSE g.fields[1]
            IN  IF IsZero(g) THEN sRow = <<NullAt(0, 0, 0)>>
                ELSE /\ xs.elems = <<>> => sRow = <<NullAt(0, 0, 1)>>
                     /\ Len(xs.elems) = 1 => sRow = <<ValueAt(0, 0, 2, xs.elems[1].v)>>

\* g present by a pointer with xs = [1], shredded
C17_Witness ==
    /\ sPhase = "deconstructed" /\ AtRoot /\ sNode = OptionalGroupSchema(TRUE)
    /\ sValue = StructOf(<<PtrTo(StructOf(<<SliceOf(<<IntV(1)>>)>>))>>)
    /\ sRow = <<ValueAt(0, 0, 2, 1)>>

\* the levels element i of the repeated node is shredded with
ElementLevels(i) ==
    [repetitionDepth |-> sLevels.repetitionDepth + 1,
     repetitionLevel |-> IF i = 1 THEN sLevels.repetitionLevel
                         ELSE sLevels.repetitionDepth + 1,
     definitionLevel |-> sLevels.definitionLevel + 1]

RECURSIVE ElementRows(_)
\* the rows of the elements i.. of the repeated node, each shredded with its levels
ElementRows(i) ==
    IF i > Len(sValue.elems) THEN {<<>>}
    ELSE {h \o t : h \in deconstructFuncOf(sColumn, RequiredOf(sNode), ElementLevels(i),
                                           sValue.elems[i]),
                   t \in ElementRows(i + 1)}

\* C20: the first element of a non-empty repeated node is shredded with the
\* repetition level inherited from the caller and every later element with the
\* repetition depth of the node, all at the definition level one above the
\* caller's; {xs: [10, 20, 30]} gives (R,D) = (0,1), (1,1), (1,1).
C20_RepeatedLevels ==
    /\ (Deconstructed /\ Repeated(sNode) /\ sValue.elems # <<>>) =>
          /\ sRow \in ElementRows(1)
          /\ isLeaf(sNode) =>
                sRow = [k \in 1..Len(sValue.elems) |->
                           ValueAt(sColumn, ElementLevels(k).repetitionLevel,
                                   sLevels.definitionLevel + 1, sValue.elems[k].v)]
    /\ (ShreddedAtRoot /\ sNode = XsSchema /\ sValue = XsRecord) =>
          sRow = <<ValueAt(0, 0, 1, 10), ValueAt(0, 1, 1, 20), ValueAt(0, 1, 1, 30)>>

\* {xs: [10, 20, 30]} shredded
C20_Witness ==
    /\ sPhase = "deconstructed" /\ AtRoot /\ sNode = XsSchema /\ sValue = XsRecord
    /\ Len(sRow) = 3 /\ sRow[3].repetitionLevel = 1 /\ sRow[3].v = 30

-----------------------------------------------------------------------------
(* Properties of Less and of Page on the optional and repeated buffers *)

LessCalled == last = <<"Less", 1>> /\ b1.kind = "optional"

\* row i of b1, as written and swapped, is a null
NullRow(i) == log1[i + 1][1].kind = "null"

\* C18: for an optional buffer built with policy p, Less(i, j) is true exactly
\* when p is nulls-first, row i is null and row j is not, or p is nulls-last,
\* row i is not null and row j is, or both rows are not null and base.Less(i, j);
\* Less(i, j) is false for two nulls, and Less(i, j) and Less(j, i) are never
\* both true.  Before any Page, base.Less(i, j) compares the payloads written.
C18_NullOrdering ==
    LessCalled =>
        LET i == less.i
            j == less.j
            baseLess == int32Less(heap, b1.base, i, j)
        IN  /\ less.result <=>
                  \/ b1.nullOrdering = "nullsGoFirst" /\ NullRow(i) /\ ~NullRow(j)
                  \/ b1.nullOrdering = "nullsGoLast" /\ ~NullRow(i) /\ NullRow(j)
                  \/ ~NullRow(i) /\ ~NullRow(j) /\ baseLess
            /\ (NullRow(i) /\ NullRow(j)) => ~less.result
            /\ ~(less.result /\ BufLess(heap, b1, j, i))
            /\ (hist = "writes" /\ ~NullRow(i) /\ ~NullRow(j)) =>
                  (less.result <=> log1[i + 1][1].v < log1[j + 1][1].v)

\* under nulls-last, a value compared with a null that was swapped before it
C18_Witness ==
    /\ LessCalled /\ b1.nullOrdering = "nullsGoLast" /\ hist = "writes"
    /\ less.result /\ less.i = 1 /\ less.j = 0
    /\ NullRow(0) /\ ~NullRow(1)
    /\ log1[2][1].v = 1

\* some row of b1, as written and swapped, holds a null
HoldsNulls == \E r \in 1..Len(log1) : \E k \in 1..Len(log1[r]) : log1[r][k].kind = "null"

\* the step is b1.Page() on an optional or repeated buffer that holds nulls,
\* called after WriteRow and Swap calls only
PagesNulls ==
    /\ last' = <<"Page", 1>>
    /\ b1.kind \in {"optional", "repeated"}
    /\ hist = "writes" /\ HoldsNulls

\* C19: Page() does not change what the buffer holds: on an optional or repeated
\* buffer containing nulls, after WriteRow and Swap calls, every ReadRowAt(i) and
\* every Less(i, j) returns after Page() what it returned before it.
C19_PageFrame ==
    [][PagesNulls =>
          /\ ReadAll(heap', b1') = ReadAll(heap, b1)
          /\ b1.kind = "optional" =>
                \A i, j \in 0..(BufLen(heap, b1) - 1) :
                    BufLess(heap', b1', i, j) = BufLess(heap, b1, i, j)]_vars

-----------------------------------------------------------------------------
(* Invariants of the optional and repeated buffers *)

\* the entries of the definition levels of an optional buffer that are nulls
NullCount(h, col) ==
    Cardinality({k \in 1..Len(h[col.definitionLevels]) :
                    isNull(k - 1, col.maxDefinitionLevel, h[col.definitionLevels])})

\* one payload slot in the base for each definition level of the optional buffer
OneSlotPerLevel(h, col) ==
    col.kind = "optional" =>
        /\ int32Len(h, col.base) = Len(h[col.definitionLevels])
        /\ BufLen(h, col) = Len(h[col.definitionLevels])

\* C21: after any sequence of WriteRow, Swap, Page, Reset and Clone calls, the
\* base of an optional buffer holds one payload slot per entry of
\* definitionLevels (base.Len() = len(definitionLevels) = Len()), and the
\* values of a page, which are the non-null entries, together with the null
\* entries are as many as the definition levels.
C21_OptionalSlots ==
    /\ OneSlotPerLevel(heap, b1) /\ OneSlotPerLevel(heap, b2)
    /\ b1.kind = "optional" => BufLen(heap, b1) = Len(log1)
    /\ (b1.kind = "optional" /\ last = <<"Page", 1>>) =>
          /\ Len(page.values) + NullCount(heap, b1) = Len(heap[b1.definitionLevels])
          /\ page.definitionLevels = heap[b1.definitionLevels]

\* a page of a value and a null, taken after a clone was made
C21_Witness ==
    /\ b1.kind = "optional" /\ b2.kind = "optional" /\ last = <<"Page", 1>>
    /\ Len(page.values) = 1 /\ NullCount(heap, b1) = 1
    /\ int32Len(heap, b1.base) = 2 /\ int32Len(heap, b2.base) = 2

RECURSIVE SumOfLengths(_)
SumOfLengths(rows) == IF rows = <<>> THEN 0 ELSE rows[1].length + SumOfLengths(Tail(rows))

\* the indexes of the level arrays a region names
IndexesOf(reg) == reg.offset..(reg.offset + reg.length - 1)

\* the regions of a repeated buffer partition the indexes of its level arrays
RegionsPartition(h, col) ==
    col.kind = "repeated" =>
        LET rows == h[col.rows]
            n == Len(h[col.repetitionLevels])
        IN  /\ SumOfLengths(rows) = n
            /\ Len(h[col.definitionLevels]) = n
            /\ int32Len(h, col.base) = n
            /\ \A r1, r2 \in 1..Len(rows) :
                  r1 # r2 => IndexesOf(rows[r1]) \cap IndexesOf(rows[r2]) = {}
            /\ UNION {IndexesOf(rows[r]) : r \in 1..Len(rows)} = 0..(n - 1)

\* C22: after any sequence of WriteRow, Swap, Page and Reset calls, the sum of
\* region.length over the rows of a repeated buffer equals len(repetitionLevels)
\* and len(definitionLevels), and the regions are pairwise disjoint and cover
\* exactly [0, len(repetitionLevels)).
C22_RepeatedRegions ==
    /\ RegionsPartition(heap, b1) /\ RegionsPartition(heap, b2)
    /\ b1.kind = "repeated" => SumOfLengths(heap[b1.rows]) = Len(FlatRows(log1))

\* two rows of different lengths, swapped and paged
C22_Witness ==
    /\ b1.kind = "repeated" /\ last = <<"Page", 1>>
    /\ b1.reordering # <<>>
    /\ Len(heap[b1.rows]) = 2
    /\ heap[b1.rows][1].offset > 0 /\ heap[b1.rows][1].length # heap[b1.rows][2].length

\* the arrays of a repeated buffer hold the rows in the order they read in
PhysicalIsLogical(h, col, rows) ==
    LET flat == FlatRows(rows)
    IN  /\ h[col.repetitionLevels] = [k \in 1..Len(flat) |-> flat[k].repetitionLevel]
        /\ h[col.definitionLevels] = [k \in 1..Len(flat) |-> flat[k].definitionLevel]
        /\ h[col.base] = [k \in 1..Len(flat) |-> Int32Of(flat[k])]

\* only WriteRow was called on b1, and nothing on another buffer
OnlyWritten == calls = Len(log1) /\ hist = "writes"

\* what holds of the repeated buffer b1 after WriteRow and Swap calls
DetectsReordering ==
    (b1.kind = "repeated" /\ hist = "writes") =>
        /\ OnlyWritten => ~rowsHaveBeenReordered(heap[b1.rows])
        /\ ~rowsHaveBeenReordered(heap[b1.rows]) => PhysicalIsLogical(heap, b1, log1)

\* what a step that is b1.Swap(i, j) does to the repeated buffer b1
SwapsRegionsOnly ==
    (last' = <<"Swap", 1>> /\ b1.kind = "repeated") =>
        /\ heap'[b1.base] = heap[b1.base]
        /\ heap'[b1.repetitionLevels] = heap[b1.repetitionLevels]
        /\ heap'[b1.definitionLevels] = heap[b1.definitionLevels]
        /\ \E i, j \in 0..(Len(heap[b1.rows]) - 1) :
              heap'[b1.rows] = SwapSeq(heap[b1.rows], i, j)

\* what a step that is b1.WriteRow(row) keeps of the repeated buffer b1
WriteKeepsOrder ==
    (last' = <<"WriteRow", 1>> /\ b1.kind = "repeated"
        /\ ~rowsHaveBeenReordered(heap[b1.rows])) =>
        ~rowsHaveBeenReordered(heap'[b1.rows])

\* C23: on a repeated buffer rowsHaveBeenReordered is false after WriteRow
\* calls alone; Swap changes only the order of the regions, the base and both
\* level arrays are left as they are; and after WriteRow and Swap calls,
\* whenever rowsHaveBeenReordered is false the level arrays and the payloads
\* are in the current logical order of the rows.
C23_ReorderDetection ==
    []DetectsReordering /\ [][SwapsRegionsOnly /\ WriteKeepsOrder]_vars

\* two rows swapped and swapped back
C23_Witness ==
    /\ b1.kind = "repeated" /\ hist = "writes" /\ last = <<"Swap", 1>>
    /\ Len(heap[b1.rows]) = 2 /\ log1[1] # log1[2]
    /\ ~rowsHaveBeenReordered(heap[b1.rows])

-----------------------------------------------------------------------------
(* Specification of null compaction: an optional buffer that holds up to    *)
(* MaxCompact rows, nulls among values that are all different, is paged     *)
(* again and again.                                                         *)

\* the rows written for the definition levels: row k a null, or the value k
CompactRows(levels) ==
    [k \in 1..Len(levels) |->
        <<WithColumn(IF levels[k] = 1
                     THEN [makeValueInt32(k) EXCEPT !.definitionLevel = 1]
                     ELSE NullValue)>>]

CompactInit ==
    /\ ShredIdle
    /\ b1 = newOptionalBufferColumn(1, 1, 2, "nullsGoFirst") /\ b2 = NoBuffer
    /\ \E n \in 0..MaxCompact : \E levels \in [1..n -> {0, 1}] :
          /\ log1 = CompactRows(levels)
          /\ heap = <<[k \in 1..n |-> Int32Of(log1[k][1])], levels>>
    /\ hist = "writes" /\ snap = NoSnap /\ touched = <<FALSE, FALSE>>
    /\ calls = 0 /\ last = <<"none", 0>>
    /\ page = NoPage /\ prevPage = NoPage /\ got = NoRead /\ held = <<>>
    /\ less = NoLess

CompactNext == Page(1)

CompactSpec == CompactInit /\ [][CompactNext]_vars

\* the payloads of the entries whose definition level is the maximum, in order
NonNullPayloads(values, maxDefinitionLevel, definitionLevels) ==
    LET kept == SelectSeq([k \in 1..Len(definitionLevels) |-> k],
                          LAMBDA k : definitionLevels[k] = maxDefinitionLevel)
    IN  [n \in 1..Len(kept) |-> values[kept[n]]]

\* C24: given a base with one slot per definition level,
\* rowGroupColumnPageWithoutNulls returns a page as long as there are entries
\* whose definition level is the maximum, holding the payloads those entries
\* have in the base when it is called, in their order; the definition levels
\* are not modified.
C24_NullCompaction ==
    [][(last' = <<"Page", 1>> /\ b1.kind = "optional") =>
          LET definitionLevels == heap[b1.definitionLevels]
          IN  /\ Len(heap[b1.base]) = Len(definitionLevels)
              /\ page'.values = NonNullPayloads(heap[b1.base], b1.maxDefinitionLevel,
                                                definitionLevels)
              /\ Len(page'.values) = Len(definitionLevels) - NullCount(heap, b1)
              /\ heap'[b1.definitionLevels] = definitionLevels
              /\ page'.definitionLevels = definitionLevels]_vars

\* the page of five entries, the second and the fourth nulls
C24_Witness ==
    /\ last = <<"Page", 1>> /\ calls = 1
    /\ heap[b1.definitionLevels] = <<1, 0, 1, 0, 1>>
    /\ page.values = <<1, 3, 5>>

-----------------------------------------------------------------------------
(* Properties of Less on the repeated buffer *)

RepeatedLessCalled == last = <<"Less", 1>> /\ b1.kind = "repeated"

\* value a goes before value b under the null ordering
GoesBefore(nullOrdering, a, b) ==
    \/ nullOrdering = "nullsGoFirst" /\ a.kind = "null" /\ b.kind # "null"
    \/ nullOrdering = "nullsGoLast" /\ a.kind # "null" /\ b.kind = "null"
    \/ a.kind # "null" /\ b.kind # "null" /\ a.v < b.v

\* the values differ in the order
Differ(nullOrdering, a, b) == GoesBefore(nullOrdering, a, b) \/ GoesBefore(nullOrdering, b, a)

\* row r1 is before row r2: at the first position where they differ the value of
\* r1 goes before, or they differ nowhere and r1 is the shorter
RowBefore(nullOrdering, r1, r2) ==
    LET common == 1..(IF Len(r1) < Len(r2) THEN Len(r1) ELSE Len(r2))
    IN  \/ \E k \in common :
              /\ \A m \in 1..(k - 1) : ~Differ(nullOrdering, r1[m], r2[m])
              /\ GoesBefore(nullOrdering, r1[k], r2[k])
        \/ /\ \A m \in common : ~Differ(nullOrdering, r1[m], r2[m])
           /\ Len(r1) < Len(r2)

\* C25: repeatedBufferColumn.Less(i, j) compares the rows i and j position by
\* position with the null ordering and returns the outcome of the first
\* position where the values differ; when one row is a prefix of the other the
\* shorter is less; Less is irreflexive, and Less(i, j) and Less(j, i) are never
\* both true, also after rows have been swapped.
C25_RepeatedLess ==
    RepeatedLessCalled =>
        /\ hist = "writes" =>
              (less.result <=> RowBefore(b1.nullOrdering, log1[less.i + 1], log1[less.j + 1]))
        /\ less.i = less.j => ~less.result
        /\ ~(less.result /\ BufLess(heap, b1, less.j, less.i))

\* after a swap, a row that is a prefix of the other is less
C25_Witness ==
    /\ RepeatedLessCalled /\ hist = "writes" /\ less.result
    /\ rowsHaveBeenReordered(heap[b1.rows])
    /\ Len(log1[less.i + 1]) = 1 /\ Len(log1[less.j + 1]) = 2
    /\ log1[less.i + 1][1].kind = "int32"
    /\ log1[less.i + 1][1].v = log1[less.j + 1][1].v

-----------------------------------------------------------------------------
(* Specification of the assembler run on the rows of any record, whole or   *)
(* damaged, into a destination that is fresh or holds an earlier record     *)

\* the most elements and entries, with what they hold, of a record that is shredded
\* for the assembler
ReassembleFill == 2

\* the row with the repetition level of value k set to r
Relevelled(row, k, r) == [row EXCEPT ![k].repetitionLevel = r]

\* the rows handed to the assembler: those of InputRows, and the row with one
\* repetition level changed
DamagedRows(row, c, n) ==
    InputRows(row, c, n)
    \cup {Relevelled(row, k, r) : k \in 1..Len(row), r \in 0..MaxDepth}

\* the destinations handed to the assembler: a zero value, or the record of an
\* earlier row
Destinations(node) == {HostZero(node), FullValue(node)}

ReassembleInit ==
    /\ sPhase = "row"
    /\ sNode \in Schemas
    /\ \E ctx \in CallContexts : sColumn = ctx[1] /\ sLevels = ctx[2]
    /\ sValue = Invalid
    /\ sCompiled = compileFuncOf(sColumn, sNode, <<>>)
    /\ \E value \in HostValues(sNode, ReassembleFill) :
          \E row \in deconstructFuncOf(sColumn, sNode, sLevels, value) :
             sRow \in DamagedRows(row, sColumn, sCompiled.columnIndex - sColumn)
    /\ sDest \in Destinations(sNode) /\ sRest = <<>> /\ sErr = NoError
    /\ BufIdle

\* row, err = reconstruct(value, levels, row), value being the destination; the
\* destination of the call is kept in sValue
ReconstructInto ==
    /\ sPhase = "row"
    /\ LET r == reconstructFuncOf(sColumn, sNode, sDest, sLevels, sRow)
       IN  sDest' = r.value /\ sRest' = r.row /\ sErr' = r.err
    /\ sValue' = sDest
    /\ sPhase' = "assembled"
    /\ UNCHANGED <<sNode, sColumn, sLevels, sCompiled, sRow, bufVars>>

ReassembleNext == ReconstructInto

ReassembleSpec == ReassembleInit /\ [][ReassembleNext]_vars

-----------------------------------------------------------------------------
(* Properties of the assembler on a reused destination *)

Reassembling == sPhase = "assembled"

\* the number of values of the subtree of the node: nextColumnIndex - columnIndex
SubtreeWidth == sCompiled.columnIndex - sColumn

\* the prefix checks of an optional or repeated node pass: the row starts with the
\* first column of the subtree and holds at least the values of the subtree
StartsSubtree == startsWith(sRow, sColumn) /\ Len(sRow) >= SubtreeWidth

\* the first value of the row is defined below the level of the node when present
NullAtStart == sRow[1].definitionLevel < sLevels.definitionLevel + 1

\* what the required form of an optional node makes of the row, at the level of
\* the present node and in the destination behind the pointer, if there is one
RequiredForm ==
    LET lv == [sLevels EXCEPT !.definitionLevel = @ + 1]
        slot == IF sValue.t # "ptr" THEN sValue
                ELSE IF sValue.elem = <<>> THEN HostZero(RequiredOf(sNode))
                ELSE sValue.elem[1]
        r == reconstructFuncOf(sColumn, RequiredOf(sNode), slot, lv, sRow)
    IN  [r EXCEPT !.value = IF sValue.t = "ptr" THEN PtrTo(@) ELSE @]

\* C26: the assembler of an optional node, given a row that passes its prefix checks
\* and whose first value is defined below the level of the present node, sets the
\* destination to its zero value whatever it held, consumes the subtreeWidth values of
\* the subtree and returns no error; given any other such row it returns what the
\* required form returns, at the incremented level
C26_OptionalReassembly ==
    (Reassembling /\ Optional(sNode) /\ StartsSubtree) =>
        IF NullAtStart
        THEN /\ sDest = HostZero(sNode)
             /\ sRest = SubSeq(sRow, SubtreeWidth + 1, Len(sRow))
             /\ sErr = NoError
        ELSE /\ sDest = RequiredForm.value
             /\ sRest = RequiredForm.row
             /\ sErr = RequiredForm.err

\* a null optional group of two columns is assembled into a destination that held
\* a record: the destination is zeroed and both values are consumed
C26_Witness ==
    /\ Reassembling /\ Optional(sNode) /\ StartsSubtree /\ NullAtStart
    /\ SubtreeWidth = 2 /\ Len(sRow) = 2
    /\ sValue = FullValue(sNode) /\ sValue # HostZero(sNode)
    /\ sDest = HostZero(sNode) /\ sRest = <<>> /\ sErr = NoError

\* a required map, and one from an integer key to a required integer
RequiredMap(node) == node.rep = "required" /\ isMap(node)
LeafMap(node) == RequiredMap(node) /\ node.kids[2] = RequiredLeaf

\* the entries of a map value, none for a nil map
Entries(m) == IF m.nil THEN <<>> ELSE m.entries

\* C28: the assembler of a map node, given a row that passes the prefix checks and
\* carries the null marker of the node (first value defined below the level of a
\* present entry), sets the destination to the zero value of its type, the nil map
C28_NullMapReassembly ==
    (Reassembling /\ RequiredMap(sNode) /\ StartsSubtree /\ NullAtStart) =>
        sErr = NoError /\ sDest = NilMap

\* the null marker of a map assembled into a nil map leaves an allocated map
C28_Allocated ==
    /\ Reassembling /\ RequiredMap(sNode) /\ StartsSubtree /\ NullAtStart
    /\ sValue = NilMap /\ sDest = MapOf(<<>>)

\* the values of the row that the assembler consumed
Consumed == SubSeq(sRow, 1, Len(sRow) - Len(sRest))

\* the payload a value assigns to an integer
Payload(v) == IF v.kind = "null" THEN 0 ELSE v.v

\* the entries that the consumed values of a map of integers carry, key and value
\* in turn, a later value of a key replacing an earlier one
CarriedPairs ==
    LET n == Len(Consumed) \div 2
        key(i) == Payload(Consumed[2 * i - 1])
        lastOf(k) == CHOOSE i \in 1..n : key(i) = k /\ \A j \in (i + 1)..n : key(j) # k
    IN  IF NullAtStart THEN <<>>
        ELSE [k \in {key(i) : i \in 1..n} |-> IntV(Payload(Consumed[2 * lastOf(k)]))]

\* C29: after a successful reconstruction of a map node the destination holds
\* exactly the entries carried by the consumed values of the row, whatever entries
\* it held before the call
C29_MapOverwrites ==
    (Reassembling /\ LeafMap(sNode) /\ sErr = NoError) => Entries(sDest) = CarriedPairs

\* the same of a destination that is a nil map before the call
C29_FreshMap ==
    (Reassembling /\ LeafMap(sNode) /\ sErr = NoError /\ sValue = NilMap) =>
        Entries(sDest) = CarriedPairs

\* a destination that held the entry of key 1 is handed the row of the entry of
\* key 2 and holds both afterwards
C29_KeepsEntries ==
    /\ Reassembling /\ LeafMap(sNode) /\ sErr = NoError /\ ~NullAtStart
    /\ DOMAIN Entries(sValue) = {1} /\ DOMAIN CarriedPairs = {2}
    /\ DOMAIN Entries(sDest) = {1, 2}


\* the node is assembled by the element loop: a repeated node, a list or a map
LoopsAtRoot == ~Optional(sNode) /\ (Repeated(sNode) \/ isList(sNode) \/ isMap(sNode))

\* the repeated node whose elements the loop assembles
LoopNode ==
    IF Repeated(sNode) THEN sNode
    ELSE IF isList(sNode) THEN RepeatedOf(listElementOf(sNode))
    ELSE RepeatedOf(mapKeyValueOf(sNode))

\* the levels of the first test of the loop
LoopLevels ==
    [sLevels EXCEPT !.definitionLevel = @ + 1, !.repetitionDepth = @ + 1]

RECURSIVE LoopRows(_, _)
\* the row at each test of the loop condition that was followed by an iteration
\* which returned no error, then the row at the test that ended the loop or was
\* followed by the iteration that failed
LoopRows(levels, row) ==
    IF ~(startsWith(row, sColumn) /\ row[1].repetitionLevel = levels.repetitionLevel)
    THEN <<row>>
    ELSE LET elem == RequiredOf(LoopNode)
             r == reconstructFuncOf(sColumn, elem, HostZero(elem), levels, row)
         IN  IF r.err # NoError THEN <<row>>
             ELSE <<row>> \o LoopRows([levels EXCEPT !.repetitionLevel = levels.repetitionDepth],
                                      r.row)

\* the number of iterations of the loop
Iterations == IF sErr = NoError THEN Len(LoopRows(LoopLevels, sRow)) - 1
              ELSE Len(LoopRows(LoopLevels, sRow))

\* the loop of the node runs: the prefix checks pass and the node is not null
LoopRuns == LoopsAtRoot /\ StartsSubtree /\ ~NullAtStart

\* the call of the reconstructor on the row has a result: a row that is the given
\* row less a prefix, with an error or none
Returns ==
    sPhase = "row" =>
        LET r == reconstructFuncOf(sColumn, sNode, sDest, sLevels, sRow)
        IN  \E k \in 0..Len(sRow) : r.row = SubSeq(sRow, k + 1, Len(sRow))

\* every iteration that returns no error leaves a shorter row to the next test of
\* the loop, so at most len(row) iterations return no error
IterationsConsume ==
    (sPhase = "row" /\ LoopRuns) =>
        LET rows == LoopRows(LoopLevels, sRow)
        IN  /\ \A i \in 1..(Len(rows) - 1) : Len(rows[i + 1]) < Len(rows[i])
            /\ Len(rows) - 1 <= Len(sRow)

\* the reconstructor returns the row less a prefix, and after a loop without error
\* the row that ended the loop, having run at most len(row) iterations
ReturnsSuffix ==
    Reassembling =>
        /\ \E k \in 0..Len(sRow) : sRest = SubSeq(sRow, k + 1, Len(sRow))
        /\ LoopRuns => Iterations <= Len(sRow)
        /\ (LoopRuns /\ sErr = NoError) =>
              LET rows == LoopRows(LoopLevels, sRow) IN sRest = rows[Len(rows)]

-----------------------------------------------------------------------------
(* Properties of a column buffer that is reset and written again *)

OptionalOrRepeated == b1.kind \in {"optional", "repeated"}

\* the buffer of the kind and null ordering of col as its constructor leaves it
FreshOf(col) ==
    CHOOSE n \in NewBuffers : n.buf.kind = col.kind /\ n.buf.nullOrdering = col.nullOrdering

RECURSIVE WriteRows(_, _, _)
\* the heap after the rows are written to col, in order
WriteRows(h, col, rows) ==
    IF rows = <<>> THEN h
    ELSE WriteRows(BufWriteRow(h, col, Head(rows)), col, Tail(rows))

\* b1 reads and pages as a buffer fresh from its constructor to which the rows of
\* log1 were written: the same length, the same rows and end of stream past them,
\* the same page, and for a repeated buffer the same regions, in ascending order
ReadsLikeFresh ==
    LET n == FreshOf(b1)
        h == WriteRows(n.heap, n.buf, log1)
        len == BufLen(heap, b1)
    IN  /\ len = Len(log1) /\ BufLen(h, n.buf) = len
        /\ ReadAll(heap, b1) = ReadAll(h, n.buf)
        /\ BufReadRowAt(heap, b1, <<>>, len) = BufReadRowAt(h, n.buf, <<>>, len)
        /\ BufReadRowAt(heap, b1, <<>>, len).err = "EOF"
        /\ BufPage(heap, b1).page = BufPage(h, n.buf).page
        /\ b1.kind = "repeated" =>
              /\ heap[b1.rows] = h[n.buf.rows]
              /\ ~rowsHaveBeenReordered(heap[b1.rows])
              /\ \A k \in 1..len : heap[b1.rows][k].offset = SumOfLengths(SubSeq(heap[b1.rows], 1, k - 1))

\* b1 was reset and has since been written and read only
ResetAndWritten == OptionalOrRepeated /\ hist = "reset"

\* C27: after Reset of an optional or repeated buffer, whatever was written, swapped
\* and paged before, Len() is 0 and ReadRowAt(0) is end of stream, and the rows written
\* afterwards are read back by ReadRowAt and Page as on a buffer fresh from its
\* constructor; the regions of a repeated buffer start at offset 0 again and
\* rowsHaveBeenReordered is false
C27_ResetReuse ==
    ResetAndWritten =>
        /\ log1 = <<>> =>
              /\ BufLen(heap, b1) = 0
              /\ BufReadRowAt(heap, b1, <<>>, 0).row = <<>>
              /\ BufReadRowAt(heap, b1, <<>>, 0).err = "EOF"
        /\ ReadsLikeFresh

\* a repeated buffer that was reset after three earlier calls holds the row of two
\* values written after the Reset, in a region at offset 0
C27_Witness ==
    /\ b1.kind = "repeated" /\ last = <<"WriteRow", 1>> /\ calls = MaxCalls
    /\ hist = "reset" /\ Len(log1) = 1 /\ Len(log1[1]) = 2
    /\ ReadsLikeFresh
    /\ heap[b1.rows][1].offset = 0
    /\ BufReadRowAt(heap, b1, <<>>, 0).row = LogicalRow(log1[1])

=============================================================================
